---- MODULE Spec2Model ----
(***************************************************************************)
(* Verification model of the 3d-models-library preview core:               *)
(*   - useModelPreview (hooks/useModelPreview.ts): cache key derivation,   *)
(*     TTL cache on localStorage, generatePreview, the mount effect;       *)
(*   - PreviewManager.generateAllPreviews (components/ModelFilter.tsx);    *)
(*   - PreviewGenerator, generateModelPreview and Model3DViewer: sessions, *)
(*     loading, frames and disposal;                                       *)
(*   - STLLoader: parseSTL, parseBinary, parseASCII;                       *)
(*   - calculateAdaptiveScale of the generator and of the viewer.          *)
(* Strings are sequences of character codes, so that JSON.stringify, btoa  *)
(* and encodeURIComponent are computed character by character.             *)
(***************************************************************************)
EXTENDS Integers, Sequences, FiniteSets, TLC

(***************************************************************************)
(* Values shared by all sections                                           *)
(***************************************************************************)
Null == "null"

\* An optional value (a prop that may be undefined): <<>> or <<v>>.
None == <<>>
Some(v) == <<v>>


(***************************************************************************)
(* Strings: JSON.stringify, btoa, encodeURIComponent                        *)
(***************************************************************************)
RECURSIVE Concat(_)
Concat(ss) == IF Len(ss) = 0 THEN <<>> ELSE Head(ss) \o Concat(Tail(ss))

RECURSIVE Digits(_)
\* Number.prototype.toString for a natural number (decimal digits).
Digits(n) == IF n < 10 THEN <<48 + n>> ELSE Digits(n \div 10) \o <<48 + (n % 10)>>

HexLower(d) == IF d < 10 THEN 48 + d ELSE 87 + d
HexUpper(d) == IF d < 10 THEN 48 + d ELSE 55 + d

\* JSON.stringify escaping of one character of a string.
JsonEscapeChar(c) ==
  IF c = 34 THEN <<92, 34>>
  ELSE IF c = 92 THEN <<92, 92>>
  ELSE IF c = 8 THEN <<92, 98>>
  ELSE IF c = 9 THEN <<92, 116>>
  ELSE IF c = 10 THEN <<92, 110>>
  ELSE IF c = 12 THEN <<92, 102>>
  ELSE IF c = 13 THEN <<92, 114>>
  ELSE IF c < 32 THEN <<92, 117, 48, 48, HexLower(c \div 16), HexLower(c % 16)>>
  ELSE <<c>>

\* JSON.stringify of a string value: quoted and escaped.
JsonString(s) == <<34>> \o Concat([i \in 1..Len(s) |-> JsonEscapeChar(s[i])]) \o <<34>>

JsonNull == <<110, 117, 108, 108>>

\* Property names of PreviewOptions and of keyData, as character codes.
NameCodes ==
  [ url             |-> <<117, 114, 108>>,
    custom          |-> <<99, 117, 115, 116, 111, 109>>,
    options         |-> <<111, 112, 116, 105, 111, 110, 115>>,
    width           |-> <<119, 105, 100, 116, 104>>,
    height          |-> <<104, 101, 105, 103, 104, 116>>,
    backgroundColor |-> <<98, 97, 99, 107, 103, 114, 111, 117, 110, 100, 67, 111, 108, 111, 114>>,
    modelColor      |-> <<109, 111, 100, 101, 108, 67, 111, 108, 111, 114>>,
    quality         |-> <<113, 117, 97, 108, 105, 116, 121>> ]

\* An object is a sequence of fields in insertion order; a field is
\* [name, kind, num, str] with kind "num", "str", "null" or "undefined".
NumField(n, v) == [name |-> n, kind |-> "num", num |-> v, str |-> <<>>]
StrField(n, s) == [name |-> n, kind |-> "str", num |-> 0, str |-> s]
NullField(n) == [name |-> n, kind |-> "null", num |-> 0, str |-> <<>>]
UndefField(n) == [name |-> n, kind |-> "undefined", num |-> 0, str |-> <<>>]

JsonValue(f) ==
  IF f.kind = "num" THEN Digits(f.num)
  ELSE IF f.kind = "str" THEN JsonString(f.str)
  ELSE JsonNull

RECURSIVE JsonMembers(_, _)
\* The members of an object, in insertion order; JSON.stringify omits a
\* property whose value is undefined.
JsonMembers(fields, first) ==
  IF Len(fields) = 0 THEN <<>>
  ELSE LET f == Head(fields) IN
       IF f.kind = "undefined" THEN JsonMembers(Tail(fields), first)
       ELSE (IF first THEN <<>> ELSE <<44>>)
            \o JsonString(NameCodes[f.name]) \o <<58>> \o JsonValue(f)
            \o JsonMembers(Tail(fields), FALSE)

\* JSON.stringify of an object.
JsonStringify(fields) == <<123>> \o JsonMembers(fields, TRUE) \o <<125>>

B64Char(i) ==
  IF i < 26 THEN 65 + i
  ELSE IF i < 52 THEN 97 + (i - 26)
  ELSE IF i < 62 THEN 48 + (i - 52)
  ELSE IF i = 62 THEN 43 ELSE 47

\* btoa throws InvalidCharacterError on a character outside Latin-1.
BtoaThrows(s) == \E i \in 1..Len(s) : s[i] > 255

RECURSIVE Btoa(_)
\* btoa: base64 of the string's bytes, three bytes to four characters.
Btoa(s) ==
  IF Len(s) = 0 THEN <<>>
  ELSE IF Len(s) = 1 THEN
    << B64Char(s[1] \div 4), B64Char((s[1] % 4) * 16), 61, 61 >>
  ELSE IF Len(s) = 2 THEN
    << B64Char(s[1] \div 4), B64Char(((s[1] % 4) * 16) + (s[2] \div 16)),
       B64Char((s[2] % 16) * 4), 61 >>
  ELSE
    << B64Char(s[1] \div 4), B64Char(((s[1] % 4) * 16) + (s[2] \div 16)),
       B64Char(((s[2] % 16) * 4) + (s[3] \div 64)), B64Char(s[3] % 64) >>
    \o Btoa(SubSeq(s, 4, Len(s)))

UriUnreserved ==
  (65..90) \cup (97..122) \cup (48..57) \cup {45, 95, 46, 33, 126, 42, 39, 40, 41}

Utf8(c) ==
  IF c < 128 THEN <<c>>
  ELSE IF c < 2048 THEN <<192 + (c \div 64), 128 + (c % 64)>>
  ELSE <<224 + (c \div 4096), 128 + ((c \div 64) % 64), 128 + (c % 64)>>

PercentByte(b) == <<37, HexUpper(b \div 16), HexUpper(b % 16)>>

\* encodeURIComponent of a string without lone surrogates.
EncodeURIComponent(s) ==
  Concat([i \in 1..Len(s) |->
            IF s[i] \in UriUnreserved THEN <<s[i]>>
            ELSE LET u == Utf8(s[i]) IN Concat([j \in 1..Len(u) |-> PercentByte(u[j])])])

(***************************************************************************)
(* useModelPreview.getCacheKey                                             *)
(***************************************************************************)
\* 'model_preview_'
CACHE_PREFIX == <<109, 111, 100, 101, 108, 95, 112, 114, 101, 118, 105, 101, 119, 95>>

\* keyData of getCacheKey: url, custom (the optional cacheKey prop) and
\* options (JSON.stringify(previewOptions), or null without previewOptions).
KeyData(modelUrl, cacheKey, previewOptions) ==
  << StrField("url", modelUrl),
     IF cacheKey = None THEN UndefField("custom") ELSE StrField("custom", cacheKey[1]),
     IF previewOptions = None THEN NullField("options")
     ELSE StrField("options", JsonStringify(previewOptions[1])) >>

\* A variant that derives the key from the url and the caller id only.
getCacheKeyWithoutOptions(modelUrl, cacheKey, previewOptions) ==
  LET keyString == JsonStringify(KeyData(modelUrl, cacheKey, None)) IN
  IF ~BtoaThrows(keyString) THEN CACHE_PREFIX \o Btoa(keyString)
  ELSE CACHE_PREFIX \o EncodeURIComponent(keyString)

getCacheKey(modelUrl, cacheKey, previewOptions) ==
  LET keyString == JsonStringify(KeyData(modelUrl, cacheKey, previewOptions)) IN
  IF ~BtoaThrows(keyString) THEN CACHE_PREFIX \o Btoa(keyString)
  ELSE CACHE_PREFIX \o EncodeURIComponent(keyString)


(***************************************************************************)
(* The catalog, and the props ModelCard gives its useModelPreview hook     *)
(***************************************************************************)
\* Two Model3D records: id, filename and path ('1', 'a.stl', '/a.stl' and
\* '2', 'b.stl', '/b.stl').
Models ==
  << [id |-> <<49>>, filename |-> <<97, 46, 115, 116, 108>>,
      path |-> <<47, 97, 46, 115, 116, 108>>],
     [id |-> <<50>>, filename |-> <<98, 46, 115, 116, 108>>,
      path |-> <<47, 98, 46, 115, 116, 108>>] >>

Cards == 1..Len(Models)

\* previewOptions of ModelCard: width 300, height 192, backgroundColor
\* 0xf0f0f0, modelColor 0x4a90e2, in this order.
CardOptions ==
  << NumField("width", 300), NumField("height", 192),
     NumField("backgroundColor", 15790320), NumField("modelColor", 4886754) >>

\* cacheKey of ModelCard: `${model.id}_${model.filename}`.
CardCacheKey(c) == Models[c].id \o <<95>> \o Models[c].filename

\* The storage key of the card's hook, one per model (computed once).
HookKey == [c \in Cards |-> getCacheKey(Models[c].path, Some(CardCacheKey(c)), Some(CardOptions))]

\* The options literal of PreviewManager.generateAllPreviews.
BatchOptions ==
  << NumField("width", 300), NumField("height", 192),
     NumField("backgroundColor", 15790320), NumField("modelColor", 4886754) >>

\* A variant whose custom part is the model's id alone.
BatchKeyStringIdOnly(c) ==
  JsonStringify(<< StrField("url", Models[c].path),
                   StrField("custom", Models[c].id),
                   StrField("options", JsonStringify(BatchOptions)) >>)

\* keyString of generateAllPreviews for model c.
BatchKeyString(c) ==
  JsonStringify(<< StrField("url", Models[c].path),
                   StrField("custom", Models[c].id \o <<95>> \o Models[c].filename),
                   StrField("options", JsonStringify(BatchOptions)) >>)

\* cacheKey of generateAllPreviews (btoa without a fallback), one per model.
BatchKey == [c \in Cards |-> CACHE_PREFIX \o Btoa(BatchKeyString(c))]

StorageKeys == {HookKey[c] : c \in Cards} \cup {BatchKey[c] : c \in Cards}

(***************************************************************************)
(* localStorage and the cache entries                                      *)
(***************************************************************************)
\* getItem of a missing key returns null.
NoItem == <<>>

\* A stored value that is not JSON (written by someone else).
Garbage == << <<"garbage", 0>> >>

\* JSON.stringify(cacheData) of saveToCache: the members in insertion order.
\* A data URL is represented by its length.
SerializeCacheData(dataUrl, timestamp, modelUrl) ==
  << <<"dataUrl", dataUrl>>, <<"timestamp", timestamp>>, <<"modelUrl", modelUrl>>,
     <<"options", 1>> >>

\* JSON.stringify(cacheData) of generateAllPreviews (no options member).
SerializeBatchCacheData(dataUrl, timestamp, modelUrl) ==
  << <<"dataUrl", dataUrl>>, <<"timestamp", timestamp>>, <<"modelUrl", modelUrl>> >>

JsonParseThrows(text) == text[1][1] = "garbage"

\* Property access on the parsed object; 0 stands for a missing property.
GetProp(text, name) ==
  IF \E i \in 1..Len(text) : text[i][1] = name
  THEN text[CHOOSE i \in 1..Len(text) : text[i][1] = name][2]
  ELSE 0

JsonParse(text) == [dataUrl |-> GetProp(text, "dataUrl"), timestamp |-> GetProp(text, "timestamp")]

CACHE_EXPIRY_DAYS == 7

maxAge == CACHE_EXPIRY_DAYS * 24 * 60 * 60 * 1000

\* A variant that still accepts an entry of exactly maxAge.
isCacheValidInclusive(cacheData, t) ==
  IF cacheData.timestamp = 0 \/ cacheData.dataUrl = 0 THEN FALSE
  ELSE (t - cacheData.timestamp) <= maxAge

isCacheValid(cacheData, t) ==
  IF cacheData.timestamp = 0 \/ cacheData.dataUrl = 0 THEN FALSE
  ELSE (t - cacheData.timestamp) < maxAge

\* A variant that never finds an entry.
loadFromCacheMiss(store, mode, key, t) ==
  [result |-> 0, store |-> store, threw |-> FALSE]

\* loadFromCache at time t: the returned data URL (0 for null), the storage
\* afterwards, and whether the try block threw.  mode "down": every access
\* to localStorage throws; "full": only setItem throws.
loadFromCache(store, mode, key, t) ==
  IF mode = "down" THEN [result |-> 0, store |-> store, threw |-> TRUE]
  ELSE LET cached == store[key] IN
    IF cached = NoItem THEN [result |-> 0, store |-> store, threw |-> FALSE]
    ELSE IF JsonParseThrows(cached) THEN [result |-> 0, store |-> store, threw |-> TRUE]
    ELSE IF isCacheValid(JsonParse(cached), t)
      THEN [result |-> JsonParse(cached).dataUrl, store |-> store, threw |-> FALSE]
      ELSE [result |-> 0, store |-> [store EXCEPT ![key] = NoItem], threw |-> FALSE]

\* A variant that keeps an entry that is already there.
saveToCacheIfAbsent(store, mode, key, dataUrl, t, modelUrl) ==
  IF mode # "ok" \/ store[key] # NoItem THEN store
  ELSE [store EXCEPT ![key] = SerializeCacheData(dataUrl, t, modelUrl)]

\* saveToCache at time t: the storage afterwards (setItem overwrites).
saveToCache(store, mode, key, dataUrl, t, modelUrl) ==
  IF mode # "ok" THEN store
  ELSE [store EXCEPT ![key] = SerializeCacheData(dataUrl, t, modelUrl)]


(***************************************************************************)
(* The still generator as the hook sees it                                 *)
(***************************************************************************)
\* Lengths of the data URL that canvas.toDataURL may produce (0: empty).
DataUrlLens == {0, 99, 100, 101, 102}

\* What one generateModelPreview call meets: loadSTL rejects, or it resolves
\* and the canvas gives a data URL.
GenEnvs == {[load |-> "fetch", raw |-> 0]} \cup [load : {"ok"}, raw : DataUrlLens]

\* A variant without the check of the data URL's length.
GeneratorGeneratePreviewUnchecked(env) ==
  IF env.load # "ok" THEN [threw |-> TRUE, dataUrl |-> 0, message |-> env.load]
  ELSE [threw |-> FALSE, dataUrl |-> env.raw, message |-> Null]

\* PreviewGenerator.generatePreview: rejects with the loader's error or,
\* for an empty data URL or one shorter than 100, with its own.
GeneratorGeneratePreview(env) ==
  IF env.load # "ok" THEN [threw |-> TRUE, dataUrl |-> 0, message |-> env.load]
  ELSE IF env.raw = 0 \/ env.raw < 100
    THEN [threw |-> TRUE, dataUrl |-> 0, message |-> "Generated preview is invalid"]
    ELSE [threw |-> FALSE, dataUrl |-> env.raw, message |-> Null]

generateModelPreview(env) == GeneratorGeneratePreview(env)

(***************************************************************************)
(* The requests of the key derivations                                     *)
(***************************************************************************)
\* The values the requests are drawn from.  Urls: 'a', 'b', 'a"' and a
\* string with a character outside Latin-1 (so that btoa throws).
KeyUrls == { <<97>>, <<98>>, <<97, 34>>, <<8364>> }
KeyCustoms == { None, Some(<<>>), Some(<<49>>) }
KeyOptions ==
  { None,
    Some(<<>>),
    Some(<< NumField("width", 1) >>),
    Some(<< NumField("width", 2) >>),
    Some(<< UndefField("width") >>),
    Some(<< NumField("width", 1), NumField("height", 2) >>),
    Some(<< NumField("height", 2), NumField("width", 1) >>),
    Some(<< NumField("width", 1), NumField("height", 12) >>),
    Some(<< NumField("width", 11), NumField("height", 2) >>),
    Some(<< NumField("width", 1), StrField("quality", <<108, 111, 119>>) >>),
    Some(<< NumField("width", 1), StrField("quality", <<104, 105, 103, 104>>) >>),
    Some(<< StrField("quality", <<108, 111, 119>>), NumField("width", 1) >>) }

KeyRequests == [url : KeyUrls, custom : KeyCustoms, options : KeyOptions]

(***************************************************************************)
(* STLLoader: parseSTL, isASCII, parseASCII, parseBinary                   *)
(***************************************************************************)
\* An ArrayBuffer is a sequence of bytes: the byte at offset o is element
\* o + 1.  A number of a geometry is a float32 read from the DataView, kept
\* as the two 16-bit halves of its little-endian bit pattern, or a number
\* returned by parseFloat, or NaN.
F32(hi, lo) == << "f32", hi, lo >>
Num(v) == << "num", v, 0 >>
NaN == << "nan", 0, 0 >>

\* What a throwing parse leaves: no geometry.
RangeError == [threw |-> TRUE, position |-> <<>>, normal |-> <<>>]

\* DataView.getUint32(o, true): the high and the low half of the value.
getUint32(reader, o) ==
  << reader[o + 3] + 256 * reader[o + 4], reader[o + 1] + 256 * reader[o + 2] >>

\* DataView.getFloat32(o, true).
getFloat32(reader, o) ==
  F32(reader[o + 3] + 256 * reader[o + 4], reader[o + 1] + 256 * reader[o + 2])

\* A read of four bytes at offset o is outside the buffer.
OutOfBounds(reader, o) == o + 4 > Len(reader)

\* i < faces, for a loop index below 65536.
FacesRemain(i, faces) == faces[1] > 0 \/ i < faces[2]

\* A variant that does not skip the attribute byte count.
readFacetNoSkip(reader, offset) ==
  LET v(j) == << getFloat32(reader, offset + 12 + 12 * j),
                 getFloat32(reader, offset + 12 + 12 * j + 4),
                 getFloat32(reader, offset + 12 + 12 * j + 8) >>
      n == << getFloat32(reader, offset), getFloat32(reader, offset + 4),
              getFloat32(reader, offset + 8) >>
  IN IF \E k \in 0..11 : OutOfBounds(reader, offset + 4 * k)
     THEN [threw |-> TRUE, vertices |-> <<>>, normals |-> <<>>, offset |-> offset]
     ELSE [threw |-> FALSE, vertices |-> v(0) \o v(1) \o v(2),
           normals |-> n \o n \o n, offset |-> offset + 12 + 36]

\* One pass of parseBinary's loop at offset: the facet normal, the three
\* vertices, each pushed with the normal, and the two attribute bytes
\* skipped without being read.  A getFloat32 outside the buffer throws.
readFacet(reader, offset) ==
  LET v(j) == << getFloat32(reader, offset + 12 + 12 * j),
                 getFloat32(reader, offset + 12 + 12 * j + 4),
                 getFloat32(reader, offset + 12 + 12 * j + 8) >>
      n == << getFloat32(reader, offset), getFloat32(reader, offset + 4),
              getFloat32(reader, offset + 8) >>
  IN IF \E k \in 0..11 : OutOfBounds(reader, offset + 4 * k)
     THEN [threw |-> TRUE, vertices |-> <<>>, normals |-> <<>>, offset |-> offset]
     ELSE [threw |-> FALSE, vertices |-> v(0) \o v(1) \o v(2),
           normals |-> n \o n \o n, offset |-> offset + 12 + 36 + 2]

RECURSIVE parseBinaryLoop(_, _, _, _, _, _)
parseBinaryLoop(reader, faces, i, offset, vertices, normals) ==
  IF ~FacesRemain(i, faces)
  THEN [threw |-> FALSE, position |-> vertices, normal |-> normals]
  ELSE LET f == readFacet(reader, offset) IN
       IF f.threw THEN RangeError
       ELSE parseBinaryLoop(reader, faces, i + 1, f.offset,
                            vertices \o f.vertices, normals \o f.normals)

\* parseBinary: the count at offset 80, then the records from offset 84.
parseBinary(reader) ==
  IF OutOfBounds(reader, 80) THEN RangeError
  ELSE parseBinaryLoop(reader, getUint32(reader, 80), 0, 84, <<>>, <<>>)

\* TextDecoder.decode: an ASCII byte is its character; any other byte is
\* taken as U+FFFD (the inputs hold no valid multi-byte sequence).
TextDecode(bytes) == [k \in 1..Len(bytes) |-> IF bytes[k] < 128 THEN bytes[k] ELSE 65533]

\* String.toLowerCase on the characters TextDecode yields.
ToLowerCase(s) == [k \in 1..Len(s) |-> IF s[k] \in 65..90 THEN s[k] + 32 ELSE s[k]]

\* String.includes.
Includes(s, t) == \E p \in 1..(Len(s) - Len(t) + 1) : SubSeq(s, p, p + Len(t) - 1) = t

\* String.startsWith.
StartsWith(s, t) == Len(s) >= Len(t) /\ SubSeq(s, 1, Len(t)) = t

Min(a, b) == IF a < b THEN a ELSE b

\* "solid", "facet normal", "vertex".
SolidWord == << 115, 111, 108, 105, 100 >>
FacetNormalWord == << 102, 97, 99, 101, 116, 32, 110, 111, 114, 109, 97, 108 >>
VertexWord == << 118, 101, 114, 116, 101, 120 >>

\* isASCII: the first 80 bytes, decoded and lower-cased, include "solid".
isASCII(data) ==
  Includes(ToLowerCase(TextDecode(SubSeq(data, 1, Min(80, Len(data))))), SolidWord)

\* White space of String.trim and of the regular expression \s.
IsSpace(ch) == ch \in {9, 10, 11, 12, 13, 32, 160, 65279}

\* String.split(sep) for a separator of one character.
RECURSIVE SplitAt(_, _)
SplitAt(s, sep) ==
  IF \A k \in 1..Len(s) : s[k] # sep THEN << s >>
  ELSE LET p == CHOOSE k \in 1..Len(s) : s[k] = sep /\ \A m \in 1..(k - 1) : s[m] # sep
       IN << SubSeq(s, 1, p - 1) >> \o SplitAt(SubSeq(s, p + 1, Len(s)), sep)

\* String.trim.
RECURSIVE Trim(_)
Trim(s) ==
  IF s = <<>> THEN s
  ELSE IF IsSpace(s[1]) THEN Trim(Tail(s))
  ELSE IF IsSpace(s[Len(s)]) THEN Trim(SubSeq(s, 1, Len(s) - 1))
  ELSE s

\* String.split(/\s+/).
RECURSIVE SplitSpaces(_)
SplitSpaces(s) ==
  IF \A k \in 1..Len(s) : ~IsSpace(s[k]) THEN << s >>
  ELSE LET p == CHOOSE k \in 1..Len(s) : IsSpace(s[k]) /\ \A m \in 1..(k - 1) : ~IsSpace(s[m])
           q == CHOOSE k \in (p + 1)..(Len(s) + 1) :
                  /\ k = Len(s) + 1 \/ ~IsSpace(s[k])
                  /\ \A m \in (p + 1)..(k - 1) : IsSpace(s[m])
       IN << SubSeq(s, 1, p - 1) >> \o SplitSpaces(SubSeq(s, q, Len(s)))

\* The value of a sequence of decimal digits.
RECURSIVE DigitsValue(_)
DigitsValue(s) ==
  IF s = <<>> THEN 0 ELSE 10 * DigitsValue(SubSeq(s, 1, Len(s) - 1)) + (s[Len(s)] - 48)

\* The number of leading decimal digits of s.
RECURSIVE DigitPrefix(_)
DigitPrefix(s) == IF s = <<>> \/ s[1] \notin 48..57 THEN 0 ELSE 1 + DigitPrefix(Tail(s))

\* parseFloat(parts[k]): an index outside parts gives undefined, then NaN;
\* else the longest numeric prefix, here a sign and decimal digits (the
\* inputs hold no '.', exponent or "Infinity"), and NaN without a digit.
parseFloat(parts, k) ==
  IF k + 1 > Len(parts) THEN NaN
  ELSE LET t == Trim(parts[k + 1])
           signed == t # <<>> /\ t[1] \in {43, 45}
           body == IF signed THEN Tail(t) ELSE t
           n == DigitPrefix(body)
       IN IF n = 0 THEN NaN
          ELSE Num((IF signed /\ t[1] = 45 THEN -1 ELSE 1) * DigitsValue(SubSeq(body, 1, n)))

\* parseASCII's loop from line i on: a "facet normal" line sets the current
\* normal, a "vertex" line pushes three numbers and, when a normal is set,
\* the normal.  Nothing here throws.
RECURSIVE parseASCIILoop(_, _, _, _, _)
parseASCIILoop(lines, i, currentNormal, vertices, normals) ==
  IF i > Len(lines)
  THEN [threw |-> FALSE, position |-> vertices, normal |-> normals]
  ELSE LET line == Trim(lines[i])
           parts == SplitSpaces(line)
       IN IF StartsWith(line, FacetNormalWord)
          THEN parseASCIILoop(lines, i + 1,
                 Some(<< parseFloat(parts, 2), parseFloat(parts, 3), parseFloat(parts, 4) >>),
                 vertices, normals)
          ELSE IF StartsWith(line, VertexWord)
          THEN parseASCIILoop(lines, i + 1, currentNormal,
                 vertices \o << parseFloat(parts, 1), parseFloat(parts, 2), parseFloat(parts, 3) >>,
                 IF currentNormal # None THEN normals \o currentNormal[1] ELSE normals)
          ELSE parseASCIILoop(lines, i + 1, currentNormal, vertices, normals)

parseASCII(text) == parseASCIILoop(SplitAt(text, 10), 1, None, <<>>, <<>>)

\* parseSTL: the text parser when isASCII, else the binary parser.
parseSTL(data) ==
  IF isASCII(data) THEN parseASCII(TextDecode(data)) ELSE parseBinary(data)

(***************************************************************************)
(* The buffers given to the loader                                         *)
(***************************************************************************)
MaxFaces == 2
MaxLines == 2

\* The 80 header bytes: zeros; "solid" at the start; "SOLID" from byte 70.
Headers == {"zero", "solid", "SOLID"}
HeaderByte(h, o) ==
  IF h = "solid" /\ o < 5 THEN SolidWord[o + 1]
  ELSE IF h = "SOLID" /\ o \in 70..74 THEN SolidWord[o - 69] - 32
  ELSE 0

\* The declared triangle counts, as the four count bytes: 0..MaxFaces + 1
\* and 4294967295.
CountBytes == { << n, 0, 0, 0 >> : n \in 0..(MaxFaces + 1) } \cup { << 255, 255, 255, 255 >> }

\* The bytes of the records: every float of the buffer differs from the others.
Seeds == {0, 1}
BodyByte(seed, o) == (seed * 31 + o * 7) % 128

BufferLengths ==
  {0, 12, 83} \cup { 84 + 50 * k + d : k \in 0..MaxFaces, d \in {-3, -2, -1, 0, 1} }

BinaryBuffer(h, count, seed, len) ==
  [k \in 1..len |-> IF k <= 80 THEN HeaderByte(h, k - 1)
                    ELSE IF k <= 84 THEN count[k - 80]
                    ELSE BodyByte(seed, k - 1)]

BinaryBuffers ==
  { BinaryBuffer(h, count, seed, len) :
      h \in Headers, count \in CountBytes, seed \in Seeds, len \in BufferLengths }

\* Text files: "solid m" followed by up to MaxLines lines of: a facet
\* normal, vertices with three, with a non-numeric and with missing
\* coordinates, and "endsolid m"; whole or cut after any of the listed
\* lengths.
TextLines ==
  { FacetNormalWord \o << 32, 48, 32, 48, 32, 49 >>,
    VertexWord \o << 32, 49, 32, 50, 32, 51 >>,
    VertexWord \o << 32, 45, 52, 32, 120, 32, 54 >>,
    VertexWord \o << 32, 55 >>,
    << 101, 110, 100 >> \o SolidWord \o << 32, 109 >> }

RECURSIVE JoinLines(_)
JoinLines(ls) == IF ls = <<>> THEN <<>> ELSE ls[1] \o << 10 >> \o JoinLines(Tail(ls))

TextBuffers ==
  LET whole == { JoinLines(<< SolidWord \o << 32, 109 >> >> \o ls) :
                   ls \in UNION { [1..n -> TextLines] : n \in 0..MaxLines } }
  IN whole \cup { SubSeq(t, 1, Min(12, Len(t))) : t \in whole }

StlBuffers == BinaryBuffers \cup TextBuffers

\* The triangle count a buffer of at least 84 bytes declares, when it is
\* below 65536.
DeclaredFaces(data) == getUint32(data, 80)[2]
DeclaresSmallCount(data) == Len(data) >= 84 /\ getUint32(data, 80)[1] = 0

(***************************************************************************)
(* calculateAdaptiveScale of PreviewGenerator and of Model3DViewer         *)
(***************************************************************************)
\* A JavaScript number is an exact fraction n/d in lowest terms with d > 0,
\* or NaN, or plus or minus Infinity.  The formulas are evaluated exactly;
\* every operation below is monotone, so rounding to doubles keeps every
\* order relation up to equality.
Rat(n, d) ==
  LET RECURSIVE Gcd(_, _)
      Gcd(a, b) == IF b = 0 THEN a ELSE Gcd(b, a % b)
      g == Gcd(IF n < 0 THEN -n ELSE n, d)
  IN << "rat", n \div g, d \div g >>

Infinity(sign) == << "inf", sign, 0 >>

\* x < y: false when either is NaN.
Lt(x, y) ==
  /\ x # NaN /\ y # NaN /\ x # y
  /\ IF x[1] = "inf" THEN x[2] < 0
     ELSE IF y[1] = "inf" THEN y[2] > 0
     ELSE x[2] * y[3] < y[2] * x[3]

\* x <= y.
Le(x, y) == x # NaN /\ y # NaN /\ (x = y \/ Lt(x, y))

\* x + y, x - y, x * y, here with operands that are finite or NaN.
Plus(x, y) ==
  IF x[1] # "rat" \/ y[1] # "rat" THEN NaN ELSE Rat(x[2] * y[3] + y[2] * x[3], x[3] * y[3])
Minus(x, y) ==
  IF x[1] # "rat" \/ y[1] # "rat" THEN NaN ELSE Rat(x[2] * y[3] - y[2] * x[3], x[3] * y[3])
Times(x, y) ==
  IF x[1] # "rat" \/ y[1] # "rat" THEN NaN ELSE Rat(x[2] * y[2], x[3] * y[3])

\* x / y for a finite x > 0 and a y that is positive, infinite or NaN.
Over(x, y) ==
  IF y = NaN \/ x = NaN THEN NaN
  ELSE IF y[1] = "inf" THEN Rat(0, 1)
  ELSE Rat(x[2] * y[3], x[3] * y[2])

\* Math.max: NaN when either argument is NaN.
MathMax(x, y) == IF x = NaN \/ y = NaN THEN NaN ELSE IF Lt(x, y) THEN y ELSE x

\* The constants of the two functions: the still generator's and the
\* interactive viewer's.
ScaleParams(variant) ==
  IF variant = "still"
  THEN [fallback |-> Rat(3, 1), tiny |-> Rat(50, 1),
        smallBase |-> Rat(15, 1), smallSpan |-> Rat(35, 1),
        mediumBase |-> Rat(3, 1), mediumSpan |-> Rat(12, 1),
        largeBase |-> Rat(1, 1), largeSpan |-> Rat(2, 1),
        huge |-> Rat(100, 1), floor |-> Rat(1, 2)]
  ELSE [fallback |-> Rat(2, 1), tiny |-> Rat(30, 1),
        smallBase |-> Rat(10, 1), smallSpan |-> Rat(20, 1),
        mediumBase |-> Rat(2, 1), mediumSpan |-> Rat(8, 1),
        largeBase |-> Rat(4, 5), largeSpan |-> Rat(6, 5),
        huge |-> Rat(80, 1), floor |-> Rat(3, 10)]

\* The upper ends of the first four buckets.
BucketEnds == << Rat(1, 10), Rat(1, 1), Rat(10, 1), Rat(100, 1) >>

\* The branch of the if-chain a size takes: 1 (very tiny) to 5 (very large).
Bucket(modelSize) ==
  IF Lt(modelSize, BucketEnds[1]) THEN 1
  ELSE IF Lt(modelSize, BucketEnds[2]) THEN 2
  ELSE IF Lt(modelSize, BucketEnds[3]) THEN 3
  ELSE IF Lt(modelSize, BucketEnds[4]) THEN 4
  ELSE 5

\* A variant whose small bucket grows with the size.
BucketFormulaRising(p, k, modelSize) ==
  IF k = 1 THEN p.tiny
  ELSE IF k = 2 THEN Plus(p.smallBase, Times(modelSize, p.smallSpan))
  ELSE IF k = 3
  THEN Plus(p.mediumBase,
            Times(Over(Minus(Rat(10, 1), modelSize), Rat(9, 1)), p.mediumSpan))
  ELSE IF k = 4
  THEN Plus(p.largeBase,
            Times(Over(Minus(Rat(100, 1), modelSize), Rat(90, 1)), p.largeSpan))
  ELSE MathMax(p.floor, Over(p.huge, modelSize))

\* The scale the branch k assigns.
BucketFormula(p, k, modelSize) ==
  IF k = 1 THEN p.tiny
  ELSE IF k = 2 THEN Plus(p.smallBase, Times(Minus(Rat(1, 1), modelSize), p.smallSpan))
  ELSE IF k = 3
  THEN Plus(p.mediumBase,
            Times(Over(Minus(Rat(10, 1), modelSize), Rat(9, 1)), p.mediumSpan))
  ELSE IF k = 4
  THEN Plus(p.largeBase,
            Times(Over(Minus(Rat(100, 1), modelSize), Rat(90, 1)), p.largeSpan))
  ELSE MathMax(p.floor, Over(p.huge, modelSize))

\* calculateAdaptiveScale: the fallback for a size <= 0, else the bucket's
\* scale, at least the floor.
calculateAdaptiveScale(variant, modelSize) ==
  LET p == ScaleParams(variant) IN
  IF Le(modelSize, Rat(0, 1)) THEN p.fallback
  ELSE MathMax(BucketFormula(p, Bucket(modelSize), modelSize), p.floor)

\* The sizes given to the functions, in hundredths: around every bucket
\* end and around the size at which the floor is reached, zero, negative,
\* very large, and the non-finite values a bounding box can have.
MaxDim == 100000
DimHundredths ==
  {-10000, -1, 0, 1, 5, 9, 10, 11, 50, 99, 100, 101, 500, 999, 1000, 1001, 5000,
   9999, 10000, 10001, 15000, 20000, 20001, 26666, 26667, 30000}
Dims ==
  { Rat(h, 100) : h \in DimHundredths } \cup
  { Rat(MaxDim, 1), NaN, Infinity(1), Infinity(-1) }

(***************************************************************************)
(* State                                                                   *)
(***************************************************************************)
\* Bounds of the model.
MaxTicks == 2
MaxInflight == 2
StartNow == 1
MaxRuns == 2
MaxSessions == 2
MaxDisposeCalls == 2
MaxPreviews == 2
MaxCalls == 2

VARIABLES
  \* The environment: clock and localStorage.
  now,             \* Date.now()
  ticks,           \* number of clock advances so far
  storage,         \* localStorage: key -> stored text
  storageMode,     \* "ok", "full" (setItem throws) or "down" (all throw)
  \* One useModelPreview hook (one ModelCard).
  urls,            \* the models whose path the parent passes as modelUrl (0: '')
  card,            \* the model whose path is the modelUrl prop (0: '')
  generateOnMount, \* the generateOnMount option
  previewUrl,      \* useState: data URL, 0 for null
  isGenerating,    \* useState
  error,           \* useState: message or Null
  dirty,           \* a state update is waiting for its render
  rendered,        \* isGenerating as captured by the last render's closures
  effectPending,   \* the mount effect is scheduled (its dependencies changed)
  inflight,        \* generateModelPreview calls awaited by the hook, per model
  ev,              \* the last operation and what it returned
  \* PreviewManager.generateAllPreviews.
  managerIsGenerating, \* useState isGenerating of PreviewManager
  errors,          \* useState errors: the models named in the messages
  batchPc,         \* "idle", "await" (generateModelPreview) or "delay" (150 ms)
  batchI,          \* the loop index i (1-based; 0 outside a run)
  successCount,    \* local of the run
  newErrors,       \* local of the run: the models named in the messages
  reported,        \* the counts passed to onPreviewsGenerated
  runs,            \* number of runs started
  batchEv,         \* the last step of the run and what it met
  \* Two cache key derivations.
  reqA, reqB,      \* two requests: modelUrl, cacheKey and previewOptions
  keyA, keyB,      \* their cache keys, once derived
  keyPc,           \* "input" before, "done" after the derivation
  \* One STLLoader.loadSTL.
  stlData,         \* the ArrayBuffer FileLoader delivers
  stlOut,          \* None before, then what parseSTL threw or returned
  \* calculateAdaptiveScale.
  scaleVariant,    \* "still": PreviewGenerator's, "viewer": Model3DViewer's
  dimA, dimB,      \* two model sizes (maxSize)
  scaleA, scaleB,  \* None before, then the scales returned for them
  \* One Model3DViewer.
  mounted,         \* the component is mounted
  session,         \* number of runs of the main effect so far
  timeoutId,       \* the pending setTimeout of the main effect (0: none)
  sceneRef,        \* refs: 0 for null, else the session that created it
  rendererRef,
  cameraRef,
  meshRef,
  animationIdRef,
  resizeObserverRef,
  pendingLoads,    \* the sessions whose loadModel awaits loadSTL
  loading,         \* useState
  viewerError,     \* useState error of the viewer
  viewerReleases,  \* per renderer and per mesh: number of dispose() calls
  liveRenderers,   \* the WebGLRenderers created and not yet disposed
  liveObservers,   \* the ResizeObservers observing and not yet disconnected
  frameLoops,      \* the sessions with a queued requestAnimationFrame callback
  sceneMeshes,     \* the meshes in the scene of sceneRef
  viewerEv,        \* the last step of the viewer and what it did
  \* One PreviewGenerator.
  generator,       \* the object: scene children, renderer, canvas, position
  disposeCalls,    \* number of dispose() calls on it
  call             \* the generateModelPreview call that owns the generator

envVars == << now, ticks, storage, storageMode >>

hookVars == << urls, card, generateOnMount, previewUrl, isGenerating, error,
               dirty, rendered, effectPending, inflight, ev >>

batchVars == << managerIsGenerating, errors, batchPc, batchI, successCount, newErrors,
                reported, runs, batchEv >>

keyVars == << reqA, reqB, keyA, keyB, keyPc >>

viewerVars == << mounted, session, timeoutId, sceneRef, rendererRef, cameraRef, meshRef,
                 animationIdRef, resizeObserverRef, pendingLoads,
                 loading, viewerError, viewerReleases, liveRenderers, liveObservers,
                 frameLoops, sceneMeshes, viewerEv >>

generatorVars == << generator, disposeCalls, call >>

stlVars == << stlData, stlOut >>

scaleVars == << scaleVariant, dimA, dimB, scaleA, scaleB >>

vars == << envVars, hookVars, batchVars, keyVars, stlVars, scaleVars, viewerVars,
           generatorVars >>

\* The last operation: its name, the model of its closure, the age of the
\* cache entry it parsed (-1: none), the data URL it got (0: null), and
\* whether it went through.
Event(op, c, age, result, ok) ==
  [op |-> op, card |-> c, age |-> age, result |-> result, ok |-> ok,
   hadError |-> FALSE]

\* A call of generatePreview by the caller: it also records whether an error
\* was set when the call was made.
CallEvent(op, age, ok) ==
  [Event(op, card, age, 0, ok) EXCEPT !.hadError = (error # Null)]

\* Recorded by the steps that are no operation of the hook.
Quiet == Event("none", 0, -1, 0, TRUE)

\* The last step of a batch run: its name, the model, whether
\* generateModelPreview resolved, and whether setItem went through.
BatchEvent(op, m, resolved, stored) ==
  [op |-> op, model |-> m, resolved |-> resolved, stored |-> stored]

BatchQuiet == BatchEvent("none", 0, FALSE, FALSE)

InflightTotal == inflight[1] + inflight[2]

\* The clock advances by one millisecond or by one less than the TTL.
TickSteps == {1, maxAge - 1}

\* The age at time t of the entry stored under key (-1: no parsable entry).
EntryAge(store, mode, key, t) ==
  IF mode = "down" \/ store[key] = NoItem THEN -1
  ELSE IF JsonParseThrows(store[key]) THEN -1
  ELSE t - JsonParse(store[key]).timestamp

Sessions == 1..MaxSessions

\* The last step of the viewer: its name, the session whose callback ran
\* (0: none), whether renderer.render was called in it, and whether the
\* scene held a mesh then.
ViewerEvent(op, s, drew, populated) ==
  [op |-> op, session |-> s, rendered |-> drew, populated |-> populated]

ViewerQuiet == ViewerEvent("none", 0, FALSE, FALSE)

\* A PreviewGenerator: where its generatePreview stands ("none": not
\* constructed, "idle", "load": awaiting loadSTL, "frame": awaiting the
\* animation frame), the number of generatePreview calls, the meshes in its
\* scene, how often the renderer and the meshes were disposed, and whether
\* the canvas was reset to 1x1; created counts the meshes it made and
\* renders the calls of renderer.render.
NoGenerator ==
  [pc |-> "none", previews |-> 0, children |-> 0, created |-> 0, renders |-> 0,
   rendererDisposals |-> 0, contextLosses |-> 0, meshDisposals |-> 0,
   canvasReset |-> FALSE]

\* A generateModelPreview call: "none" before the first, "pending" while
\* its generatePreview is awaited, "resolved" or "rejected" once its promise
\* has settled; n counts the calls.
NoCall == [pc |-> "none", n |-> 0]

(***************************************************************************)
(* Initial states                                                          *)
(***************************************************************************)
EnvIdle ==
  /\ now = StartNow
  /\ ticks = 0
  /\ storage = [k \in StorageKeys |-> NoItem]
  /\ storageMode = "ok"

HookInit ==
  /\ now = StartNow
  /\ ticks = 0
  /\ urls = {0, 1}
  /\ storage \in [StorageKeys -> {NoItem, Garbage}]
  /\ \A c \in Cards \ urls : storage[HookKey[c]] = NoItem
  /\ storageMode = "ok"
  /\ card \in urls
  /\ generateOnMount \in BOOLEAN
  /\ previewUrl = 0
  /\ isGenerating = FALSE
  /\ error = Null
  /\ dirty = FALSE
  /\ rendered = FALSE
  /\ effectPending = TRUE
  /\ inflight = [c \in Cards |-> 0]
  /\ ev = Quiet

\* No card is mounted.
HookIdle ==
  /\ urls = {0}
  /\ card = 0
  /\ generateOnMount = FALSE
  /\ previewUrl = 0
  /\ isGenerating = FALSE
  /\ error = Null
  /\ dirty = FALSE
  /\ rendered = FALSE
  /\ effectPending = FALSE
  /\ inflight = [c \in Cards |-> 0]
  /\ ev = Quiet

\* No run of generateAllPreviews has been started.
BatchIdle ==
  /\ managerIsGenerating = FALSE
  /\ errors = <<>>
  /\ batchPc = "idle"
  /\ batchI = 0
  /\ successCount = 0
  /\ newErrors = <<>>
  /\ reported = <<>>
  /\ runs = 0
  /\ batchEv = BatchQuiet

BatchInit ==
  /\ now = StartNow
  /\ ticks = 0
  /\ storage \in [StorageKeys -> {NoItem, Garbage}]
  /\ storageMode = "ok"
  /\ BatchIdle

KeyInit ==
  /\ reqA \in KeyRequests
  /\ reqB \in KeyRequests
  /\ keyA = <<>>
  /\ keyB = <<>>
  /\ keyPc = "input"

KeyIdle ==
  /\ reqA = [url |-> <<97>>, custom |-> None, options |-> None]
  /\ reqB = [url |-> <<97>>, custom |-> None, options |-> None]
  /\ keyA = <<>>
  /\ keyB = <<>>
  /\ keyPc = "input"

StlInit ==
  /\ stlData \in StlBuffers
  /\ stlOut = None

StlIdle ==
  /\ stlData = <<>>
  /\ stlOut = None

ScaleInit ==
  /\ scaleVariant \in {"still", "viewer"}
  /\ dimA \in Dims
  /\ dimB \in Dims
  /\ scaleA = None
  /\ scaleB = None

ScaleIdle ==
  /\ scaleVariant = "still"
  /\ dimA = Rat(1, 1)
  /\ dimB = Rat(1, 1)
  /\ scaleA = None
  /\ scaleB = None

\* Before the viewer is mounted.
ViewerInit ==
  /\ mounted = FALSE
  /\ session = 0
  /\ timeoutId = 0
  /\ sceneRef = 0
  /\ rendererRef = 0
  /\ cameraRef = 0
  /\ meshRef = 0
  /\ animationIdRef = 0
  /\ resizeObserverRef = 0
  /\ pendingLoads = {}
  /\ loading = TRUE
  /\ viewerError = Null
  /\ viewerReleases = [renderer |-> [s \in Sessions |-> 0], mesh |-> [s \in Sessions |-> 0]]
  /\ liveRenderers = {}
  /\ liveObservers = {}
  /\ frameLoops = {}
  /\ sceneMeshes = {}
  /\ viewerEv = ViewerQuiet

GeneratorInit ==
  /\ generator = NoGenerator
  /\ disposeCalls = 0
  /\ call = NoCall

(***************************************************************************)
(* Operations of useModelPreview                                           *)
(***************************************************************************)
\* generatePreview's guard, read from the closure of the last render.
GuardPasses == ~rendered /\ card # 0

\* A state update schedules a render unless it leaves the state as it is.
Updated == << previewUrl', isGenerating', error' >> # << previewUrl, isGenerating, error >>

\* A variant that leaves the error of the previous generation in place.
StartGenerationKeepingError ==
  /\ InflightTotal < MaxInflight
  /\ isGenerating' = TRUE
  /\ UNCHANGED error
  /\ inflight' = [inflight EXCEPT ![card] = @ + 1]

\* The synchronous part of generatePreview up to the await.
StartGeneration ==
  /\ InflightTotal < MaxInflight
  /\ isGenerating' = TRUE
  /\ error' = Null
  /\ inflight' = [inflight EXCEPT ![card] = @ + 1]

\* The mount effect: cache first, then generatePreview when generateOnMount.
MountEffect ==
  /\ effectPending
  /\ effectPending' = FALSE
  /\ UNCHANGED << now, ticks, storageMode, urls, card, generateOnMount, rendered >>
  /\ IF card = 0
     THEN /\ UNCHANGED << storage, previewUrl, isGenerating, error, inflight >>
          /\ ev' = Event("effect", 0, -1, 0, TRUE)
     ELSE LET r == loadFromCache(storage, storageMode, HookKey[card], now) IN
          /\ storage' = r.store
          /\ ev' = Event("effect", card, EntryAge(storage, storageMode, HookKey[card], now),
                         r.result, ~r.threw)
          /\ IF r.result # 0
             THEN /\ previewUrl' = r.result
                  /\ UNCHANGED << isGenerating, error, inflight >>
             ELSE /\ UNCHANGED previewUrl
                  /\ IF generateOnMount /\ GuardPasses
                     THEN StartGeneration
                     ELSE UNCHANGED << isGenerating, error, inflight >>
  /\ UNCHANGED << batchVars, keyVars, stlVars, scaleVars, viewerVars, generatorVars >>
  /\ dirty' = (dirty \/ Updated)

\* React re-renders the component after a state update.  ModelCard passes
\* previewOptions as an object literal, so every render re-creates
\* getCacheKey, loadFromCache, saveToCache and generatePreview, and the
\* effect, which depends on them, is scheduled again.
Render ==
  /\ ~effectPending
  /\ dirty
  /\ dirty' = FALSE
  /\ rendered' = isGenerating
  /\ effectPending' = TRUE
  /\ ev' = Quiet
  /\ UNCHANGED << now, ticks, storage, storageMode, urls, card, generateOnMount,
                  previewUrl, isGenerating, error, inflight >>
  /\ UNCHANGED << batchVars, keyVars, stlVars, scaleVars, viewerVars, generatorVars >>

\* The parent renders the hook with another modelUrl.
SetModelUrl(c) ==
  /\ ~effectPending
  /\ c # card
  /\ card' = c
  /\ dirty' = FALSE
  /\ rendered' = isGenerating
  /\ effectPending' = TRUE
  /\ ev' = Quiet
  /\ UNCHANGED << now, ticks, storage, storageMode, urls, generateOnMount,
                  previewUrl, isGenerating, error, inflight >>
  /\ UNCHANGED << batchVars, keyVars, stlVars, scaleVars, viewerVars, generatorVars >>

\* The caller invokes generatePreview (ModelCard's 'Generate preview').
CallGeneratePreview ==
  /\ ~effectPending
  /\ GuardPasses
  /\ StartGeneration
  /\ ev' = CallEvent("generatePreview", EntryAge(storage, storageMode, HookKey[card], now), TRUE)
  /\ UNCHANGED << now, ticks, storage, storageMode, urls, card, generateOnMount,
                  previewUrl, rendered, effectPending >>
  /\ UNCHANGED << batchVars, keyVars, stlVars, scaleVars, viewerVars, generatorVars >>
  /\ dirty' = (dirty \/ Updated)

\* clearCache: removeItem, then setPreviewUrl(null); a throw skips both.
clearCacheStore == IF storageMode = "down" \/ card = 0 THEN storage
                   ELSE [storage EXCEPT ![HookKey[card]] = NoItem]
clearCachePreviewUrl == IF storageMode = "down" THEN previewUrl ELSE 0

CallClearCache ==
  /\ ~effectPending
  /\ storage' = clearCacheStore
  /\ previewUrl' = clearCachePreviewUrl
  /\ ev' = Event("clearCache", card, -1, 0, storageMode # "down")
  /\ UNCHANGED << now, ticks, storageMode, urls, card, generateOnMount,
                  isGenerating, error, rendered, effectPending, inflight >>
  /\ UNCHANGED << batchVars, keyVars, stlVars, scaleVars, viewerVars, generatorVars >>
  /\ dirty' = (dirty \/ Updated)

\* ModelCard.handleRegeneratePreview: clearCache(); generatePreview().
HandleRegeneratePreview ==
  /\ ~effectPending
  /\ storage' = clearCacheStore
  /\ previewUrl' = clearCachePreviewUrl
  /\ IF GuardPasses THEN StartGeneration ELSE UNCHANGED << isGenerating, error, inflight >>
  /\ ev' = CallEvent("regenerate", -1, storageMode # "down")
  /\ UNCHANGED << now, ticks, storageMode, urls, card, generateOnMount,
                  rendered, effectPending >>
  /\ UNCHANGED << batchVars, keyVars, stlVars, scaleVars, viewerVars, generatorVars >>
  /\ dirty' = (dirty \/ Updated)

\* The hook's validation of the generated data URL.
HookAccepts(dataUrl) == dataUrl # 0 /\ dataUrl > 100

\* A variant that saves whatever the generator returned, before validating.
SettleStoreUnvalidated(c, res) ==
  IF ~res.threw
  THEN saveToCache(storage, storageMode, HookKey[c], res.dataUrl, now, Models[c].path)
  ELSE storage

\* The storage after the continuation of generatePreview for model c.
SettleStore(c, res) ==
  IF ~res.threw /\ HookAccepts(res.dataUrl)
  THEN saveToCache(storage, storageMode, HookKey[c], res.dataUrl, now, Models[c].path)
  ELSE storage

\* generatePreview resumes after the await: publish and save, or set the
\* error; finally isGenerating is reset.
Settle(c, env) ==
  LET res == generateModelPreview(env) IN
  /\ inflight[c] > 0
  /\ inflight' = [inflight EXCEPT ![c] = @ - 1]
  /\ storage' = SettleStore(c, res)
  /\ IF ~res.threw /\ HookAccepts(res.dataUrl)
     THEN /\ previewUrl' = res.dataUrl
          /\ UNCHANGED error
     ELSE /\ UNCHANGED previewUrl
          /\ error' = IF res.threw THEN res.message
                      ELSE "Generated preview appears to be invalid or too short"
  /\ isGenerating' = FALSE
  /\ ev' = Event("settle", c, EntryAge(storage, storageMode, HookKey[c], now), res.dataUrl,
                 ~res.threw /\ HookAccepts(res.dataUrl))
  /\ UNCHANGED << now, ticks, storageMode, urls, card, generateOnMount,
                  rendered, effectPending >>
  /\ UNCHANGED << batchVars, keyVars, stlVars, scaleVars, viewerVars, generatorVars >>
  /\ dirty' = (dirty \/ Updated)

\* Time passes.
Tick(d) ==
  /\ ticks < MaxTicks
  /\ ticks' = ticks + 1
  /\ now' = now + d
  /\ ev' = Quiet
  /\ batchEv' = BatchQuiet
  /\ UNCHANGED << storage, storageMode, urls, card, generateOnMount,
                  previewUrl, isGenerating, error, dirty, rendered, effectPending, inflight >>
  /\ UNCHANGED << managerIsGenerating, errors, batchPc, batchI, successCount, newErrors,
                  reported, runs >>
  /\ UNCHANGED << keyVars, stlVars, scaleVars, viewerVars, generatorVars >>

\* The storage medium fills up or becomes unavailable.
StorageChange(m) ==
  /\ storageMode = "ok"
  /\ m # storageMode
  /\ storageMode' = m
  /\ ev' = Quiet
  /\ batchEv' = BatchQuiet
  /\ UNCHANGED << now, ticks, storage, urls, card, generateOnMount,
                  previewUrl, isGenerating, error, dirty, rendered, effectPending, inflight >>
  /\ UNCHANGED << managerIsGenerating, errors, batchPc, batchI, successCount, newErrors,
                  reported, runs >>
  /\ UNCHANGED << keyVars, stlVars, scaleVars, viewerVars, generatorVars >>

HookNext ==
  \/ MountEffect
  \/ Render
  \/ \E c \in urls : SetModelUrl(c)
  \/ CallGeneratePreview
  \/ CallClearCache
  \/ HandleRegeneratePreview
  \/ \E c \in Cards, env \in GenEnvs : Settle(c, env)
  \/ \E d \in TickSteps : Tick(d)
  \/ \E m \in {"full", "down"} : StorageChange(m)

(***************************************************************************)
(* Operations of PreviewManager.generateAllPreviews                        *)
(***************************************************************************)
\* The optional clearing of the cached previews: every key with the prefix
\* is removed; a throw (no access to localStorage) is caught and logged.
ClearPrefixed(store, mode) ==
  IF mode = "down" THEN store ELSE [k \in StorageKeys |-> NoItem]

\* localStorage.setItem(cacheKey, JSON.stringify(cacheData)) of the loop.
BatchSetItem(store, mode, key, text) ==
  IF mode # "ok" THEN [store |-> store, threw |-> TRUE]
  ELSE [store |-> [store EXCEPT ![key] = text], threw |-> FALSE]

\* generateAllPreviews up to the first await.
BatchStart(clearCacheFirst) ==
  /\ batchPc = "idle"
  /\ ~managerIsGenerating
  /\ runs < MaxRuns
  /\ runs' = runs + 1
  /\ managerIsGenerating' = TRUE
  /\ errors' = <<>>
  /\ storage' = IF clearCacheFirst THEN ClearPrefixed(storage, storageMode) ELSE storage
  /\ successCount' = 0
  /\ newErrors' = <<>>
  /\ batchI' = 1
  /\ batchPc' = "await"
  /\ batchEv' = BatchEvent("start", 0, FALSE, FALSE)
  /\ ev' = Quiet
  /\ UNCHANGED << now, ticks, storageMode, reported >>
  /\ UNCHANGED << urls, card, generateOnMount, previewUrl, isGenerating, error,
                  dirty, rendered, effectPending, inflight >>
  /\ UNCHANGED << keyVars, stlVars, scaleVars, viewerVars, generatorVars >>

\* generateAllPreviews called while a run is in progress: the buttons'
\* handlers of the current render read isGenerating = true and return.
BatchReentrantCall(clearCacheFirst) ==
  /\ managerIsGenerating
  /\ batchEv' = BatchEvent("ignored", 0, FALSE, FALSE)
  /\ ev' = Quiet
  /\ UNCHANGED << now, ticks, storage, storageMode, managerIsGenerating, errors, batchPc,
                  batchI, successCount, newErrors, reported, runs >>
  /\ UNCHANGED << urls, card, generateOnMount, previewUrl, isGenerating, error,
                  dirty, rendered, effectPending, inflight >>
  /\ UNCHANGED << keyVars, stlVars, scaleVars, viewerVars, generatorVars >>

\* A variant whose catch block drops the failure instead of recording it.
BatchSettleDroppingErrors(env) ==
  LET res == generateModelPreview(env)
      put == BatchSetItem(storage, storageMode, BatchKey[batchI],
                          SerializeBatchCacheData(res.dataUrl, now, Models[batchI].path))
      success == ~res.threw /\ ~BtoaThrows(BatchKeyString(batchI)) /\ ~put.threw IN
  /\ batchPc = "await"
  /\ storage' = IF success THEN put.store ELSE storage
  /\ successCount' = IF success THEN successCount + 1 ELSE successCount
  /\ newErrors' = newErrors
  /\ batchPc' = "delay"
  /\ batchEv' = BatchEvent("settle", batchI, ~res.threw, success)
  /\ ev' = Quiet
  /\ UNCHANGED << now, ticks, storageMode, managerIsGenerating, errors, batchI, reported, runs >>
  /\ UNCHANGED << urls, card, generateOnMount, previewUrl, isGenerating, error,
                  dirty, rendered, effectPending, inflight >>
  /\ UNCHANGED << keyVars, stlVars, scaleVars, viewerVars, generatorVars >>

\* The loop body after the await: build the key, store the entry and count
\* the success; whatever throws inside the try is pushed to newErrors.
BatchSettle(env) ==
  LET res == generateModelPreview(env)
      put == BatchSetItem(storage, storageMode, BatchKey[batchI],
                          SerializeBatchCacheData(res.dataUrl, now, Models[batchI].path))
      success == ~res.threw /\ ~BtoaThrows(BatchKeyString(batchI)) /\ ~put.threw IN
  /\ batchPc = "await"
  /\ storage' = IF success THEN put.store ELSE storage
  /\ successCount' = IF success THEN successCount + 1 ELSE successCount
  /\ newErrors' = IF success THEN newErrors ELSE Append(newErrors, batchI)
  /\ batchPc' = "delay"
  /\ batchEv' = BatchEvent("settle", batchI, ~res.threw, success)
  /\ ev' = Quiet
  /\ UNCHANGED << now, ticks, storageMode, managerIsGenerating, errors, batchI, reported, runs >>
  /\ UNCHANGED << urls, card, generateOnMount, previewUrl, isGenerating, error,
                  dirty, rendered, effectPending, inflight >>
  /\ UNCHANGED << keyVars, stlVars, scaleVars, viewerVars, generatorVars >>

\* After the 150 ms delay: the next model, or the end of the run
\* (setErrors, setIsGenerating(false), onPreviewsGenerated(successCount)).
BatchDelay ==
  /\ batchPc = "delay"
  /\ IF batchI < Len(Models)
     THEN /\ batchI' = batchI + 1
          /\ batchPc' = "await"
          /\ batchEv' = BatchEvent("next", batchI + 1, FALSE, FALSE)
          /\ UNCHANGED << managerIsGenerating, errors, successCount, newErrors, reported >>
     ELSE /\ batchI' = 0
          /\ batchPc' = "idle"
          /\ errors' = newErrors
          /\ managerIsGenerating' = FALSE
          /\ reported' = Append(reported, successCount)
          /\ successCount' = 0
          /\ newErrors' = <<>>
          /\ batchEv' = BatchEvent("finish", 0, FALSE, FALSE)
  /\ ev' = Quiet
  /\ UNCHANGED << now, ticks, storage, storageMode, runs >>
  /\ UNCHANGED << urls, card, generateOnMount, previewUrl, isGenerating, error,
                  dirty, rendered, effectPending, inflight >>
  /\ UNCHANGED << keyVars, stlVars, scaleVars, viewerVars, generatorVars >>

BatchNext ==
  \/ \E clearCacheFirst \in BOOLEAN : BatchStart(clearCacheFirst)
  \/ \E clearCacheFirst \in BOOLEAN : BatchReentrantCall(clearCacheFirst)
  \/ \E env \in GenEnvs : BatchSettle(env)
  \/ BatchDelay
  \/ \E d \in TickSteps : Tick(d)
  \/ \E m \in {"full", "down"} : StorageChange(m)

(***************************************************************************)
(* Cache key derivation on its own: two requests and their keys            *)
(***************************************************************************)
\* Both hooks derive their key.
DeriveKeys ==
  /\ keyPc = "input"
  /\ keyA' = getCacheKey(reqA.url, reqA.custom, reqA.options)
  /\ keyB' = getCacheKey(reqB.url, reqB.custom, reqB.options)
  /\ keyPc' = "done"
  /\ UNCHANGED << reqA, reqB >>
  /\ UNCHANGED << envVars, hookVars, batchVars, stlVars, scaleVars, viewerVars, generatorVars >>

KeyNext == DeriveKeys

(***************************************************************************)
(* Operations of STLLoader                                                 *)
(***************************************************************************)
\* FileLoader's onLoad callback in loadSTL: parseSTL in a try block; the
\* promise is resolved with the geometry or rejected with what was thrown.
loadSTL ==
  /\ stlOut = None
  /\ stlOut' = Some(parseSTL(stlData))
  /\ UNCHANGED stlData
  /\ UNCHANGED << envVars, hookVars, batchVars, keyVars, scaleVars, viewerVars,
                  generatorVars >>

(***************************************************************************)
(* Operations on calculateAdaptiveScale                                    *)
(***************************************************************************)
\* The function of one component is called for the sizes of two models.
MeasureScale ==
  /\ scaleA = None
  /\ scaleA' = Some(calculateAdaptiveScale(scaleVariant, dimA))
  /\ scaleB' = Some(calculateAdaptiveScale(scaleVariant, dimB))
  /\ UNCHANGED << scaleVariant, dimA, dimB >>
  /\ UNCHANGED << envVars, hookVars, batchVars, keyVars, stlVars, viewerVars,
                  generatorVars >>

(***************************************************************************)
(* Operations of Model3DViewer                                             *)
(***************************************************************************)
\* The refs of the viewer with what the browser holds for them: the
\* disposals made, the live renderers and observers, the queued frame
\* callbacks and the children of the scene.
ViewerRefs ==
  [sceneRef |-> sceneRef, rendererRef |-> rendererRef, cameraRef |-> cameraRef,
   meshRef |-> meshRef, animationIdRef |-> animationIdRef,
   resizeObserverRef |-> resizeObserverRef, releases |-> viewerReleases,
   liveRenderers |-> liveRenderers, liveObservers |-> liveObservers,
   frameLoops |-> frameLoops, sceneMeshes |-> sceneMeshes]

\* One more dispose() of the object h (0: none) recorded in counts.
Released(counts, h) == IF h = 0 THEN counts ELSE [counts EXCEPT ![h] = @ + 1]

\* A variant that forgets the refs without cancelling the frame callback or
\* disposing the renderer.
cleanupRefsOnly(v) ==
  [sceneRef |-> 0, rendererRef |-> 0, cameraRef |-> 0, meshRef |-> 0,
   animationIdRef |-> 0, resizeObserverRef |-> 0,
   releases |-> [renderer |-> v.releases.renderer,
                 mesh |-> Released(v.releases.mesh, v.meshRef)],
   liveRenderers |-> v.liveRenderers,
   liveObservers |-> v.liveObservers \ {v.resizeObserverRef},
   frameLoops |-> v.frameLoops,
   sceneMeshes |-> IF v.sceneRef # 0 THEN {} ELSE v.sceneMeshes]

\* cleanup: each ref that is set is released and set to null: the frame
\* callback is cancelled, the observer disconnected, the mesh and the
\* renderer disposed, the scene cleared.
cleanup(v) ==
  [sceneRef |-> 0, rendererRef |-> 0, cameraRef |-> 0, meshRef |-> 0,
   animationIdRef |-> 0, resizeObserverRef |-> 0,
   releases |-> [renderer |-> Released(v.releases.renderer, v.rendererRef),
                 mesh |-> Released(v.releases.mesh, v.meshRef)],
   liveRenderers |-> v.liveRenderers \ {v.rendererRef},
   liveObservers |-> v.liveObservers \ {v.resizeObserverRef},
   frameLoops |-> v.frameLoops \ {v.animationIdRef},
   sceneMeshes |-> IF v.sceneRef # 0 THEN {} ELSE v.sceneMeshes]

\* A variant that drops the scene before anything is released.
cleanupStepsSceneFirst(v) ==
  (IF v.sceneRef # 0 THEN << "scene" >> ELSE << >>) \o
  (IF v.animationIdRef # 0 THEN << "animation" >> ELSE << >>) \o
  (IF v.resizeObserverRef # 0 THEN << "observer" >> ELSE << >>) \o
  (IF v.meshRef # 0 THEN << "mesh" >> ELSE << >>) \o
  (IF v.rendererRef # 0 THEN << "renderer" >> ELSE << >>) \o
  << "camera" >>

\* The statements of cleanup in the order in which they run: each ref that
\* is set is released and nulled (the animation frame cancelled, the
\* observer disconnected, the mesh's geometry and materials disposed, the
\* renderer disposed and its context lost, the scene cleared and dropped),
\* and the camera ref is nulled.
cleanupSteps(v) ==
  (IF v.animationIdRef # 0 THEN << "animation" >> ELSE << >>) \o
  (IF v.resizeObserverRef # 0 THEN << "observer" >> ELSE << >>) \o
  (IF v.meshRef # 0 THEN << "mesh" >> ELSE << >>) \o
  (IF v.rendererRef # 0 THEN << "renderer" >> ELSE << >>) \o
  (IF v.sceneRef # 0 THEN << "scene" >> ELSE << >>) \o
  << "camera" >>

\* The refs of the viewer become those of the record v.
SetViewerRefs(v) ==
  /\ sceneRef' = v.sceneRef
  /\ rendererRef' = v.rendererRef
  /\ cameraRef' = v.cameraRef
  /\ meshRef' = v.meshRef
  /\ animationIdRef' = v.animationIdRef
  /\ resizeObserverRef' = v.resizeObserverRef
  /\ viewerReleases' = v.releases
  /\ liveRenderers' = v.liveRenderers
  /\ liveObservers' = v.liveObservers
  /\ frameLoops' = v.frameLoops
  /\ sceneMeshes' = v.sceneMeshes

\* The component mounts: the main effect schedules its timeout.
ViewerMount ==
  /\ ~mounted
  /\ session = 0
  /\ mounted' = TRUE
  /\ session' = 1
  /\ timeoutId' = 1
  /\ viewerEv' = ViewerEvent("mount", 0, FALSE, FALSE)
  /\ UNCHANGED << sceneRef, rendererRef, cameraRef, meshRef, animationIdRef,
                  resizeObserverRef, pendingLoads, loading, viewerError, viewerReleases,
                  liveRenderers, liveObservers, frameLoops, sceneMeshes >>
  /\ UNCHANGED << envVars, hookVars, batchVars, keyVars, stlVars, scaleVars, generatorVars >>

\* modelUrl changes: the effect's cleanup (clearTimeout, cleanup()) runs and
\* the effect schedules a new timeout.
ViewerSetModelUrl ==
  /\ mounted
  /\ session < MaxSessions
  /\ session' = session + 1
  /\ timeoutId' = session + 1
  /\ SetViewerRefs(cleanup(ViewerRefs))
  /\ viewerEv' = ViewerEvent("cleanup", 0, FALSE, FALSE)
  /\ UNCHANGED << mounted, pendingLoads, loading, viewerError >>
  /\ UNCHANGED << envVars, hookVars, batchVars, keyVars, stlVars, scaleVars, generatorVars >>

\* The timeout fires: initScene, the ResizeObserver, animate(), which
\* requests the next frame and renders the scene, and loadModel() up to its
\* await.  Without WebGL the WebGLRenderer constructor throws out of
\* initScene, after the scene and the camera were stored.
ViewerTimeout(webgl) ==
  /\ timeoutId # 0
  /\ timeoutId' = 0
  /\ sceneRef' = session
  /\ cameraRef' = session
  /\ sceneMeshes' = {}
  /\ IF webgl
     THEN /\ rendererRef' = session
          /\ liveRenderers' = liveRenderers \cup {session}
          /\ resizeObserverRef' = session
          /\ liveObservers' = liveObservers \cup {session}
          /\ animationIdRef' = session
          /\ frameLoops' = frameLoops \cup {session}
          /\ loading' = TRUE
          /\ viewerError' = Null
          /\ pendingLoads' = pendingLoads \cup {session}
          /\ viewerEv' = ViewerEvent("setup", session, TRUE, FALSE)
     ELSE /\ UNCHANGED << rendererRef, liveRenderers, resizeObserverRef, liveObservers,
                          animationIdRef, frameLoops, loading, viewerError, pendingLoads >>
          /\ viewerEv' = ViewerEvent("setup", session, FALSE, FALSE)
  /\ UNCHANGED << mounted, session, meshRef, viewerReleases >>
  /\ UNCHANGED << envVars, hookVars, batchVars, keyVars, stlVars, scaleVars, generatorVars >>

\* The queued frame callback of session s runs animate: without a renderer,
\* a scene or a camera it returns; else it requests the next frame and
\* renders the scene.
ViewerFrame(s) ==
  /\ s \in frameLoops
  /\ IF rendererRef = 0 \/ sceneRef = 0 \/ cameraRef = 0
     THEN /\ frameLoops' = frameLoops \ {s}
          /\ UNCHANGED animationIdRef
          /\ viewerEv' = ViewerEvent("frame", s, FALSE, FALSE)
     ELSE /\ animationIdRef' = s
          /\ UNCHANGED frameLoops
          /\ viewerEv' = ViewerEvent("frame", s, TRUE, sceneMeshes # {})
  /\ UNCHANGED << mounted, session, timeoutId, sceneRef, rendererRef, cameraRef, meshRef,
                  resizeObserverRef, pendingLoads, loading, viewerError, viewerReleases,
                  liveRenderers, liveObservers, sceneMeshes >>
  /\ UNCHANGED << envVars, hookVars, batchVars, keyVars, stlVars, scaleVars, generatorVars >>

\* loadModel of session s resumes after loadSTL: the old mesh is removed and
\* disposed when there is a scene, the new one is stored and added to the
\* current scene; a rejection, or a missing scene, ends in the catch.
ViewerLoadSettle(s, ok) ==
  /\ s \in pendingLoads
  /\ pendingLoads' = pendingLoads \ {s}
  /\ IF ok
     THEN /\ meshRef' = s
          /\ viewerReleases' =
               IF meshRef # 0 /\ sceneRef # 0
               THEN [viewerReleases EXCEPT !.mesh = Released(@, meshRef)]
               ELSE viewerReleases
          /\ sceneMeshes' = IF sceneRef # 0 THEN (sceneMeshes \ {meshRef}) \cup {s}
                            ELSE sceneMeshes
          /\ viewerError' = IF sceneRef = 0 /\ mounted THEN "Failed to load 3D model"
                            ELSE viewerError
     ELSE /\ UNCHANGED << meshRef, viewerReleases, sceneMeshes >>
          /\ viewerError' = IF mounted THEN "Failed to load 3D model" ELSE viewerError
  /\ loading' = IF mounted THEN FALSE ELSE loading
  /\ viewerEv' = ViewerEvent("load", s, FALSE, ok /\ sceneRef # 0)
  /\ UNCHANGED << mounted, session, timeoutId, sceneRef, rendererRef, cameraRef,
                  animationIdRef, resizeObserverRef, liveRenderers, liveObservers,
                  frameLoops >>
  /\ UNCHANGED << envVars, hookVars, batchVars, keyVars, stlVars, scaleVars, generatorVars >>

\* The component unmounts: clearTimeout and cleanup().
ViewerUnmount ==
  /\ mounted
  /\ mounted' = FALSE
  /\ timeoutId' = 0
  /\ SetViewerRefs(cleanup(ViewerRefs))
  /\ viewerEv' = ViewerEvent("cleanup", 0, FALSE, FALSE)
  /\ UNCHANGED << session, pendingLoads, loading, viewerError >>
  /\ UNCHANGED << envVars, hookVars, batchVars, keyVars, stlVars, scaleVars, generatorVars >>

(***************************************************************************)
(* Operations of PreviewGenerator                                          *)
(***************************************************************************)
\* clearScene: every child is removed from the scene and, being a mesh,
\* disposed.
clearScene(g) == [g EXCEPT !.meshDisposals = @ + g.children, !.children = 0]

\* A variant that releases the renderer and leaves the scene as it is.
disposeRendererOnly(g) ==
  [g EXCEPT !.rendererDisposals = @ + 1, !.contextLosses = @ + 1,
            !.canvasReset = TRUE]

\* dispose: clearScene, then the renderer, which is never set to null, is
\* disposed and its context lost, and the canvas is reset to 1x1.
dispose(g) ==
  [clearScene(g) EXCEPT !.rendererDisposals = @ + 1, !.contextLosses = @ + 1,
                        !.canvasReset = TRUE]

\* new PreviewGenerator(options).
GeneratorConstruct ==
  /\ generator.pc = "none"
  /\ disposeCalls = 0
  /\ call.pc = "none"
  /\ generator' = [NoGenerator EXCEPT !.pc = "idle"]
  /\ UNCHANGED << disposeCalls, call >>
  /\ UNCHANGED << envVars, hookVars, batchVars, keyVars, stlVars, scaleVars, viewerVars >>

\* generatePreview up to the await of loadSTL.
GeneratorStart ==
  /\ generator.pc = "idle"
  /\ call.pc = "none"
  /\ generator.previews < MaxPreviews
  /\ generator' = [clearScene(generator) EXCEPT !.pc = "load", !.previews = @ + 1]
  /\ UNCHANGED << disposeCalls, call >>
  /\ UNCHANGED << envVars, hookVars, batchVars, keyVars, stlVars, scaleVars, viewerVars >>

\* generateModelPreview up to its await: the generator is constructed and
\* its generatePreview runs up to the await of loadSTL.  Without WebGL the
\* constructor throws, generator stays null and the finally block has
\* nothing to dispose.
GenerateModelPreviewStart(webgl) ==
  /\ call.pc # "pending"
  /\ call.n < MaxCalls
  /\ disposeCalls = 0
  /\ generator.pc = "none" \/ call.pc # "none"
  /\ IF webgl
     THEN /\ generator' = [NoGenerator EXCEPT !.pc = "load", !.previews = 1]
          /\ call' = [pc |-> "pending", n |-> call.n + 1]
     ELSE /\ generator' = NoGenerator
          /\ call' = [pc |-> "rejected", n |-> call.n + 1]
  /\ UNCHANGED disposeCalls
  /\ UNCHANGED << envVars, hookVars, batchVars, keyVars, stlVars, scaleVars, viewerVars >>

\* generatePreview has settled: a generator owned by a generateModelPreview
\* call is disposed in the finally block, then the call's promise settles.
GeneratorSettled(g, resolved) ==
  IF call.pc = "pending"
  THEN /\ generator' = dispose(g)
       /\ call' = [call EXCEPT !.pc = IF resolved THEN "resolved" ELSE "rejected"]
  ELSE /\ generator' = g
       /\ UNCHANGED call

\* loadSTL settles: on "ok" the mesh and the ground plane are added and
\* rendered; on "reject" (the file cannot be fetched or parsed) the rejection
\* is rethrown; on "renderThrows" the mesh and the ground plane are added
\* and renderer.render throws.
GeneratorLoaded(outcome) ==
  /\ generator.pc = "load"
  /\ IF outcome = "ok"
     THEN /\ generator' = [generator EXCEPT !.children = 2, !.created = @ + 2,
                                            !.renders = @ + 3, !.pc = "frame"]
          /\ UNCHANGED call
     ELSE IF outcome = "renderThrows"
     THEN GeneratorSettled([generator EXCEPT !.children = 2, !.created = @ + 2,
                                             !.pc = "idle"], FALSE)
     ELSE GeneratorSettled([generator EXCEPT !.pc = "idle"], FALSE)
  /\ UNCHANGED disposeCalls
  /\ UNCHANGED << envVars, hookVars, batchVars, keyVars, stlVars, scaleVars, viewerVars >>

\* The animation frame arrives: the data URL is read from the canvas and
\* returned, or, being shorter than 100 characters, rejected.
GeneratorFrame(valid) ==
  /\ generator.pc = "frame"
  /\ GeneratorSettled([generator EXCEPT !.pc = "idle"], valid)
  /\ UNCHANGED disposeCalls
  /\ UNCHANGED << envVars, hookVars, batchVars, keyVars, stlVars, scaleVars, viewerVars >>

\* A caller that holds the generator invokes dispose().
GeneratorDispose ==
  /\ generator.pc # "none"
  /\ call.pc = "none"
  /\ disposeCalls < MaxDisposeCalls
  /\ disposeCalls' = disposeCalls + 1
  /\ generator' = dispose(generator)
  /\ UNCHANGED call
  /\ UNCHANGED << envVars, hookVars, batchVars, keyVars, stlVars, scaleVars, viewerVars >>

RenderNext ==
  \/ ViewerMount
  \/ ViewerSetModelUrl
  \/ \E webgl \in BOOLEAN : ViewerTimeout(webgl)
  \/ \E s \in Sessions : ViewerFrame(s)
  \/ \E s \in Sessions, ok \in BOOLEAN : ViewerLoadSettle(s, ok)
  \/ ViewerUnmount
  \/ GeneratorConstruct
  \/ GeneratorStart
  \/ \E webgl \in BOOLEAN : GenerateModelPreviewStart(webgl)
  \/ \E outcome \in {"ok", "reject", "renderThrows"} : GeneratorLoaded(outcome)
  \/ \E valid \in BOOLEAN : GeneratorFrame(valid)
  \/ GeneratorDispose

(***************************************************************************)
(* Specifications                                                          *)
(***************************************************************************)
\* One ModelCard's hook with the clock and localStorage.
Init == HookInit /\ BatchIdle /\ KeyIdle /\ ViewerInit /\ GeneratorInit /\ StlIdle /\ ScaleIdle

Spec == Init /\ [][HookNext]_vars

\* The hook with the promise of every generation settling: FileLoader calls
\* back with the data or with an error, and the animation frame arrives.
SpecRetry ==
  /\ Init
  /\ [][HookNext]_vars
  /\ \A c \in Cards : WF_vars(\E env \in GenEnvs : Settle(c, env))

\* The hook of a card whose modelUrl prop changes between the two models.
InitSwitch ==
  /\ now = StartNow
  /\ ticks = 0
  /\ urls = {1, 2}
  /\ storage = [k \in StorageKeys |-> NoItem]
  /\ storageMode = "ok"
  /\ card = 1
  /\ generateOnMount \in BOOLEAN
  /\ previewUrl = 0
  /\ isGenerating = FALSE
  /\ error = Null
  /\ dirty = FALSE
  /\ rendered = FALSE
  /\ effectPending = TRUE
  /\ inflight = [c \in Cards |-> 0]
  /\ ev = Quiet
  /\ BatchIdle /\ KeyIdle /\ ViewerInit /\ GeneratorInit /\ StlIdle /\ ScaleIdle

\* The clock stands still, the storage works and the caller neither clears
\* the cache nor regenerates.
SwitchNext ==
  \/ MountEffect
  \/ Render
  \/ \E c \in urls : SetModelUrl(c)
  \/ CallGeneratePreview
  \/ \E c \in Cards, env \in GenEnvs : Settle(c, env)

SpecSwitch == InitSwitch /\ [][SwitchNext]_vars

\* One PreviewManager with the clock and localStorage.
InitBatch == BatchInit /\ HookIdle /\ KeyIdle /\ ViewerInit /\ GeneratorInit /\ StlIdle /\ ScaleIdle

SpecBatch == InitBatch /\ [][BatchNext]_vars

\* Two cache key derivations.
InitKey == KeyInit /\ EnvIdle /\ HookIdle /\ BatchIdle /\ ViewerInit /\ GeneratorInit /\ StlIdle /\ ScaleIdle

SpecKey == InitKey /\ [][KeyNext]_vars

\* One loadSTL on one buffer.
InitStl ==
  StlInit /\ ScaleIdle /\ EnvIdle /\ HookIdle /\ BatchIdle /\ KeyIdle /\ ViewerInit /\ GeneratorInit

SpecStl == InitStl /\ [][loadSTL]_vars

\* One of the two calculateAdaptiveScale functions and two sizes.
InitScale ==
  /\ ScaleInit /\ StlIdle /\ EnvIdle /\ HookIdle /\ BatchIdle /\ KeyIdle
  /\ ViewerInit /\ GeneratorInit

SpecScale == InitScale /\ [][MeasureScale]_vars

\* One Model3DViewer and one PreviewGenerator.
InitRender == ViewerInit /\ GeneratorInit /\ EnvIdle /\ HookIdle /\ BatchIdle /\ KeyIdle /\ StlIdle /\ ScaleIdle

SpecRender == InitRender /\ [][RenderNext]_vars

(***************************************************************************)
(* Claims about useModelPreview, checked under Spec                        *)
(***************************************************************************)
\* The entry under key can be read and parsed.
Readable(store, mode, key) ==
  mode # "down" /\ store[key] # NoItem /\ ~JsonParseThrows(store[key])

\* A generation has been started by the step.
Started == InflightTotal' > InflightTotal

\* C1: TTL.  A lookup (the effect's loadFromCache) that reads an entry
\* written by saveToCache at time t returns exactly the stored data URL and
\* leaves the entry when now - t < 7 days, and returns null and removes the
\* entry when now - t >= 7 days, whatever lookups preceded it.
C1_TTL ==
  [][ (ev'.op = "effect" /\ card # 0 /\ Readable(storage, storageMode, HookKey[card])) =>
        LET k == HookKey[card]
            stored == GetProp(storage[k], "dataUrl")
            t == GetProp(storage[k], "timestamp") IN
        IF now - t < 7 * 24 * 60 * 60 * 1000
        THEN ev'.result = stored /\ previewUrl' = stored /\ storage'[k] = storage[k]
        ELSE ev'.result = 0 /\ storage'[k] = NoItem ]_vars

\* C1 witness: a lookup exactly 7 days after the write found the entry
\* expired, returned null and removed it.
C1_Witness ==
  /\ ev.op = "effect" /\ ev.ok /\ ev.age = 7 * 24 * 60 * 60 * 1000
  /\ ev.result = 0
  /\ storage[HookKey[ev.card]] = NoItem

\* C2: single-flight.  For one hook instance and one key at most one
\* generateModelPreview call is in flight at any time.
C2_SingleFlight == \A c \in Cards : inflight[c] <= 1

\* The batch's part of C3: a model whose generation rejected leaves the
\* storage as it was and is named in newErrors.
BatchFailureNotCached ==
  (batchEv'.op = "settle" /\ ~batchEv'.resolved) =>
     (storage' = storage /\ newErrors' = Append(newErrors, batchEv'.model)
      /\ successCount' = successCount)

\* C3: a failure is never cached.  When a generation fails (the generator
\* rejects, or the data URL is empty or not longer than 100), the step
\* leaves the storage as it was and sets the error.
C3_FailureNeverCached ==
  [][ /\ (ev'.op = "settle" /\ ev'.result <= 100) =>
           (storage' = storage /\ error' # Null /\ previewUrl' = previewUrl)
      /\ BatchFailureNotCached ]_vars

\* C3 witness: a generated data URL of length 100 failed the hook's
\* validation; the error is set and nothing is stored under the key.
C3_Witness ==
  /\ ev.op = "settle" /\ ev.result = 100
  /\ error = "Generated preview appears to be invalid or too short"
  /\ storageMode = "ok" /\ storage[HookKey[ev.card]] = NoItem

\* C5: no automatic retry.  The mount effect starts a generation only
\* while no failure is recorded: after a generation failed (error set),
\* only an explicit generatePreview call starts another one.
C5_NoAutomaticRetry ==
  [][ (ev'.op = "effect" /\ Started) => error = Null ]_vars

\* C8: put overwrites unconditionally.  Every successful saveToCache leaves
\* under the key exactly the written data URL with the time of the write,
\* whatever the key held before, and the other keys as they were.
C8_PutOverwrites ==
  [][ (ev'.op = "settle" /\ ev'.result > 100 /\ storageMode = "ok") =>
        LET k == HookKey[ev'.card] IN
        /\ GetProp(storage'[k], "dataUrl") = ev'.result
        /\ GetProp(storage'[k], "timestamp") = now
        /\ \A k2 \in StorageKeys \ {k} : storage'[k2] = storage[k2] ]_vars

\* C8 witness: a write replaced an older entry that held another image.
C8_Witness ==
  /\ ev.op = "settle" /\ ev.ok /\ ev.age > 0 /\ ev.result = 102
  /\ previewUrl = 102
  /\ GetProp(storage[HookKey[ev.card]], "dataUrl") = 102
  /\ GetProp(storage[HookKey[ev.card]], "timestamp") = now

\* The entry under key is readable and younger than 7 days at time t.
FreshEntry(store, mode, key, t) ==
  /\ Readable(store, mode, key)
  /\ GetProp(store[key], "dataUrl") # 0
  /\ t - GetProp(store[key], "timestamp") < 7 * 24 * 60 * 60 * 1000

HookCachePathsDegrade ==
  /\ (ev'.op = "settle" /\ ev'.result > 100) => (previewUrl' = ev'.result /\ error' = error)
  /\ ev'.op = "effect" => error' \in {error, Null}
  /\ ev'.op \in {"clearCache", "regenerate"} => error' \in {error, Null}

\* The batch's part of C4: a model whose image was rendered is counted as a
\* success and not named in newErrors, whatever localStorage does.
BatchCachePathsDegrade ==
  (batchEv'.op = "settle" /\ batchEv'.resolved) =>
     (newErrors' = newErrors /\ successCount' = successCount + 1)

\* C4: cache failures never propagate.  In every preview path a storage
\* operation that throws is degraded to a no-op: it never causes the
\* request to be reported as failed and never prevents a successfully
\* rendered image from being delivered.
C4_CacheFailuresNeverPropagate ==
  [][ HookCachePathsDegrade /\ BatchCachePathsDegrade ]_vars

(***************************************************************************)
(* Claims about getCacheKey, checked under SpecKey                         *)
(***************************************************************************)
\* The two option objects have the same properties in the same order and
\* differ in the value of exactly one of them.
OptionsDifferInOneField(oa, ob) ==
  /\ Len(oa) = Len(ob)
  /\ \A i \in 1..Len(oa) : oa[i].name = ob[i].name
  /\ Cardinality({i \in 1..Len(oa) : oa[i] # ob[i]}) = 1

\* The two requests differ in the url only, in the caller id only, or in
\* the value of a single option field only.
DifferInOneInput(a, b) ==
  \/ a.url # b.url /\ a.custom = b.custom /\ a.options = b.options
  \/ a.url = b.url /\ a.custom # b.custom /\ a.options = b.options
  \/ /\ a.url = b.url /\ a.custom = b.custom
     /\ a.options # None /\ b.options # None
     /\ OptionsDifferInOneField(a.options[1], b.options[1])

\* The set of name/value pairs of an option object, whatever their order.
FieldSet(o) == {o[i] : i \in 1..Len(o)}

\* The two requests hold the same field/value pairs in a different order.
SameFieldsOtherOrder(a, b) ==
  /\ a.url = b.url /\ a.custom = b.custom
  /\ a.options # None /\ b.options # None
  /\ a.options # b.options
  /\ Len(a.options[1]) = Len(b.options[1])
  /\ FieldSet(a.options[1]) = FieldSet(b.options[1])

C7_KeyOrderIndependent ==
  (keyPc = "done" /\ SameFieldsOtherOrder(reqA, reqB)) => keyA = keyB

(***************************************************************************)
(* Claims about disposal, checked under SpecRender                         *)
(***************************************************************************)
\* The step runs the viewer's cleanup (modelUrl changed, or unmount).
CleanupStep == (session' > session /\ session >= 1) \/ (mounted /\ ~mounted')

\* The step is a dispose() call on the generator.
DisposeStep == disposeCalls' > disposeCalls

\* The generator is as a dispose() call leaves it.
Disposed(g) == g.children = 0 /\ g.canvasReset /\ g.rendererDisposals >= 1

\* C10: disposal is idempotent and total.  After the viewer's cleanup a
\* second cleanup changes nothing, after the generator's dispose a second
\* dispose changes nothing, and no renderer or mesh is disposed twice.
C10_DisposalIdempotent ==
  [][ /\ CleanupStep => cleanup(ViewerRefs') = ViewerRefs'
      /\ \A s \in Sessions : viewerReleases'.renderer[s] <= 1 /\ viewerReleases'.mesh[s] <= 1
      /\ (DisposeStep /\ Disposed(generator)) => generator' = generator
      /\ generator'.rendererDisposals <= 1 ]_vars

(***************************************************************************)
(* Claims about the viewer's sessions, checked under SpecRender            *)
(***************************************************************************)
\* The step is the timeout callback of the main effect.
SetupStep == timeoutId # 0 /\ viewerEv'.op = "setup"

\* C11: session exclusivity.  When the timeout callback of a session runs
\* initScene, the cleanup of the previous session has completed: every ref
\* is null and nothing of it is live; so the viewer never holds two live
\* renderers, two frame loops or two resize observers.
C11_SessionExclusivity ==
  [][ /\ SetupStep =>
           /\ sceneRef = 0 /\ rendererRef = 0 /\ cameraRef = 0
           /\ animationIdRef = 0 /\ resizeObserverRef = 0
           /\ liveRenderers = {} /\ liveObservers = {} /\ frameLoops = {}
      /\ Cardinality(liveRenderers') <= 1
      /\ Cardinality(liveObservers') <= 1
      /\ Cardinality(frameLoops') <= 1 ]_vars

\* C11 witness: the second session holds its renderer, observer and frame
\* loop after the renderer of the first one was disposed.
C11_Witness ==
  /\ session = 2 /\ viewerEv.op = "setup"
  /\ liveRenderers = {2} /\ liveObservers = {2} /\ frameLoops = {2}
  /\ viewerReleases.renderer[1] = 1

(***************************************************************************)
(* C12                                                                     *)
(***************************************************************************)
\* loadModel of session s resumes in this step.
LoadSettleStep(s) == s \in pendingLoads /\ s \notin pendingLoads'

\* C12: late results are discarded.  When the load of a superseded session
\* finishes, its mesh does not become the active mesh, is not added to the
\* scene, and the loading and error state of the newer session stay as they
\* were.
C12_LateResultsDiscarded ==
  [][ \A s \in Sessions :
        LoadSettleStep(s) /\ s < session =>
          /\ meshRef' # s
          /\ s \notin sceneMeshes'
          /\ loading' = loading
          /\ viewerError' = viewerError ]_vars

(***************************************************************************)
(* C13                                                                     *)
(***************************************************************************)
\* The caller invokes generatePreview, directly or through
\* handleRegeneratePreview, in this step.
ExplicitCallStep == ev'.op \in {"generatePreview", "regenerate"}

\* C13: explicit retry is always possible.  Every generation that was
\* started settles and leaves isGenerating false, and an explicit
\* generatePreview made from a render that shows isGenerating false, for a
\* model URL that is set, starts one more generation, sets isGenerating and
\* clears the error.
C13_ExplicitRetryPossible ==
  /\ \A c \in Cards :
       inflight[c] > 0 ~> (ev.op = "settle" /\ ev.card = c /\ ~isGenerating)
  /\ [][ ExplicitCallStep /\ ~rendered /\ card # 0 =>
           /\ inflight'[card] = inflight[card] + 1
           /\ isGenerating'
           /\ error' = Null ]_vars

\* An explicit call made while the error of a failed generation was shown
\* has started a generation and cleared the error.
C13_Witness ==
  /\ ev.op \in {"generatePreview", "regenerate"}
  /\ ev.hadError
  /\ isGenerating
  /\ error = Null
  /\ inflight[ev.card] = 1

(***************************************************************************)
(* C14                                                                     *)
(***************************************************************************)
\* The promise of the generateModelPreview call has settled.
CallSettled == call.pc \in {"resolved", "rejected"}

\* C14: teardown on every outcome.  Once the promise of a
\* generateModelPreview call has settled, on success and on a failure of
\* construction, loading, parsing, rendering or encoding, nothing it
\* acquired is left: either no renderer was created, or the renderer was
\* disposed and its context lost, the scene is empty and every mesh that was
\* created has been disposed.
C14_TeardownOnEveryOutcome ==
  CallSettled =>
    \/ generator = NoGenerator
    \/ /\ generator.rendererDisposals >= 1
       /\ generator.contextLosses >= 1
       /\ generator.canvasReset
       /\ generator.children = 0
       /\ generator.meshDisposals = generator.created

\* A call whose rendering failed after the meshes were added has settled.
C14_Witness ==
  /\ call.pc = "rejected"
  /\ generator.created = 2
  /\ generator.meshDisposals = 2
  /\ generator.rendererDisposals = 1

(***************************************************************************)
(* Claims about STLLoader, checked under SpecStl                           *)
(***************************************************************************)
\* The float32 at offset c of the geometry attribute for vertex j of
\* triangle i (all counted from 0).
AttributeAt(attribute, i, j, c) == attribute[9 * i + 3 * j + c + 1]

\* C15: binary parse shape.  For a buffer that declares N triangles and is
\* 84 + 50 N bytes long, parseBinary returns 3 N positions and 3 N normals
\* of three numbers each; the positions of triangle i are the three
\* vertices of record i in order, and each of its three normals is the
\* facet normal of record i.
C15_BinaryParseShape ==
  (DeclaresSmallCount(stlData) /\ Len(stlData) = 84 + 50 * DeclaredFaces(stlData)) =>
    LET n == DeclaredFaces(stlData)
        g == parseBinary(stlData)
    IN /\ ~g.threw
       /\ Len(g.position) = 3 * (3 * n)
       /\ Len(g.normal) = 3 * (3 * n)
       /\ \A i \in 0..(n - 1), j \in 0..2, c \in 0..2 :
            /\ AttributeAt(g.position, i, j, c)
                 = getFloat32(stlData, 84 + 50 * i + 12 + 12 * j + 4 * c)
            /\ AttributeAt(g.normal, i, j, c) = getFloat32(stlData, 84 + 50 * i + 4 * c)

\* loadSTL has parsed a binary buffer of two records.
C15_Witness ==
  /\ ~isASCII(stlData)
  /\ DeclaresSmallCount(stlData)
  /\ DeclaredFaces(stlData) = 2
  /\ Len(stlData) = 184
  /\ stlOut # None
  /\ ~stlOut[1].threw
  /\ Len(stlOut[1].position) = 18

\* The buffer is shorter than a binary STL header, or, being taken as
\* binary, shorter than its declared count requires.
Truncated(data) ==
  \/ Len(data) < 84
  \/ /\ ~isASCII(data)
     /\ getUint32(data, 80)[1] > 0 \/ Len(data) < 84 + 50 * DeclaredFaces(data)

\* C16: truncation is an error.  For a truncated buffer the parse throws
\* and returns no geometry.
C16_TruncationIsAnError ==
  (stlOut # None /\ Truncated(stlData)) => stlOut[1].threw

(***************************************************************************)
(* Claims about calculateAdaptiveScale, checked under SpecScale            *)
(***************************************************************************)
\* C17: scale monotonicity.  For each of the two functions and all sizes
\* a, b with 0 < a <= b the scale of a is at least the scale of b.
C17_ScaleMonotone ==
  (scaleA # None /\ Lt(Rat(0, 1), dimA) /\ Le(dimA, dimB)) => Le(scaleB[1], scaleA[1])

\* Two sizes on the two sides of the bucket end 1 have been scaled.
C17_Witness ==
  /\ scaleA # None
  /\ dimA = Rat(99, 100) /\ dimB = Rat(101, 100)
  /\ Lt(scaleB[1], scaleA[1])

\* C18: scale continuity.  At each bucket end the value that the formula of
\* the bucket below it takes there, which is what it approaches from
\* below, is the scale returned at the bucket end.
C18_ScaleContinuous ==
  \A k \in 1..4 :
    (scaleA # None /\ dimA = BucketEnds[k]) =>
      scaleA[1] = BucketFormula(ScaleParams(scaleVariant), k, dimA)

\* C19: floor and fallback.  For every size the scale returned is at least
\* the floor of the function, and for every size <= 0 it is the fallback.
C19_ScaleFloorAndFallback ==
  scaleA # None =>
    /\ Le(ScaleParams(scaleVariant).floor, scaleA[1])
    /\ Le(dimA, Rat(0, 1)) => scaleA[1] = ScaleParams(scaleVariant).fallback

(***************************************************************************)
(* C20, checked under SpecRender                                           *)
(***************************************************************************)
\* C20: lifecycle ordering.  In the viewer no frame is drawn, and no frame
\* callback is queued, while the scene holds no model; the still generator
\* calls renderer.render only after it has created the mesh of the model.
C20_LifecycleOrdering ==
  /\ viewerEv.rendered => viewerEv.populated
  /\ frameLoops # {} => sceneMeshes # {}
  /\ generator.renders > 0 => generator.created > 0

(***************************************************************************)
(* C21, checked under SpecSwitch                                           *)
(***************************************************************************)
\* C21: a stale preview is never published.  When modelUrl changes, the
\* previewUrl the hook returns for the new modelUrl is null until an image
\* of the new model is loaded or generated, and a generation of another
\* model than the current one that completes leaves previewUrl as it is.
C21_NoStalePreview ==
  [][ /\ card' # card => previewUrl' = 0
      /\ (ev'.op = "settle" /\ ev'.card # card) => previewUrl' = previewUrl ]_vars

(***************************************************************************)
(* C22, C23, checked under SpecRender                                      *)
(***************************************************************************)
\* A queued frame callback runs animate in this step.
FrameStep == viewerEv'.op = "frame" /\ viewerEv' # viewerEv

\* cleanup has run and no later session has been set up.
CleanedUp == ~mounted \/ timeoutId # 0

\* C22: frame-loop cancellation.  A frame callback that runs belongs to the
\* live session, renders the scene and queues exactly the next callback of
\* that session; once cleanup has run, whether before the first frame,
\* between frames or during a pending load, no frame callback is queued, so
\* none renders or schedules later.
C22_FrameLoopCancellation ==
  [][ /\ FrameStep =>
           /\ mounted /\ viewerEv'.session = session
           /\ viewerEv'.rendered
           /\ frameLoops' = {session}
           /\ animationIdRef' = session
      /\ CleanedUp' => frameLoops' = {} ]_vars

\* The second session draws frames after the first one was cleaned up
\* between frames while its load was pending.
C22_Witness ==
  /\ session = 2
  /\ viewerEv.op = "frame" /\ viewerEv.session = 2 /\ viewerEv.rendered
  /\ frameLoops = {2}
  /\ 1 \in pendingLoads
  /\ viewerReleases.renderer[1] = 1

\* The order the claim gives to the releases of cleanup.
DisposalOrder == << "animation", "observer", "mesh", "renderer", "scene" >>
DisposalRank(step) == CHOOSE k \in 1..Len(DisposalOrder) : DisposalOrder[k] = step

\* C23: disposal order.  In every cleanup the frame callback is cancelled
\* before the observer is disconnected, that before the mesh is disposed,
\* that before the renderer is disposed, and the scene is dropped after all
\* of them; what cleanup releases is exactly what was set.
C23_DisposalOrder ==
  [][ CleanupStep =>
        LET steps == cleanupSteps(ViewerRefs)
            listed == { k \in 1..Len(steps) : \E r \in 1..5 : DisposalOrder[r] = steps[k] }
        IN /\ \A a, b \in listed :
                a < b => DisposalRank(steps[a]) < DisposalRank(steps[b])
           /\ ("scene" \in { steps[k] : k \in listed }) = (sceneRef # 0)
           /\ ("renderer" \in { steps[k] : k \in listed }) = (rendererRef # 0)
           /\ ("mesh" \in { steps[k] : k \in listed }) = (meshRef # 0)
           /\ sceneRef' = 0 /\ rendererRef' = 0 /\ meshRef' = 0 ]_vars

\* A cleanup has released a session that had a frame loop, an observer, a
\* mesh, a renderer and a scene.
C23_Witness ==
  /\ viewerEv.op = "cleanup"
  /\ session = 2
  /\ viewerReleases.renderer[1] = 1
  /\ viewerReleases.mesh[1] = 1
  /\ sceneRef = 0 /\ frameLoops = {} /\ liveObservers = {}

(***************************************************************************)
(* C24, checked under SpecStl                                              *)
(***************************************************************************)
\* C24: ASCII parse keeps normals aligned.  For every text input the parser
\* returns as many normal components as position components, a "vertex"
\* line before any "facet normal" line included.
C24_NormalsAligned ==
  (stlOut # None /\ isASCII(stlData) /\ ~stlOut[1].threw) =>
     Len(stlOut[1].normal) = Len(stlOut[1].position)

(***************************************************************************)
(* C25, checked under Spec                                                 *)
(***************************************************************************)
\* C25: still-image sanity floor.  generatePreview of the generator never
\* resolves with an empty data URL or one of fewer than 100 characters: for
\* such an image it rejects, and the hook's continuation then publishes
\* nothing, stores nothing and records the generator's error.
C25_SanityFloor ==
  /\ \A env \in GenEnvs :
       (env.load = "ok" /\ env.raw < 100) =>
          /\ GeneratorGeneratePreview(env).threw
          /\ GeneratorGeneratePreview(env).message = "Generated preview is invalid"
  /\ [][ ev'.op = "settle" =>
           /\ ev'.result \notin 1..99
           /\ ev'.result = 0 =>
                /\ ~ev'.ok
                /\ previewUrl' = previewUrl
                /\ storage' = storage
                /\ error' \in {"Generated preview is invalid", "fetch"} ]_vars

\* C25 witness: the canvas gave a short image, the generator rejected, and
\* the hook shows the generator's error with nothing published or stored.
C25_Witness ==
  /\ ev.op = "settle" /\ ev.result = 0 /\ ~ev.ok
  /\ error = "Generated preview is invalid"
  /\ previewUrl = 0 /\ ~isGenerating
  /\ storageMode = "ok" /\ storage[HookKey[ev.card]] = NoItem

(***************************************************************************)
(* C26, checked under SpecBatch                                            *)
(***************************************************************************)
\* C26: "Generate All Previews" renders only the models without a fresh
\* cached preview.  A run started without clearing never finishes a render
\* for a model whose entry is readable and younger than 7 days, and leaves
\* that entry as it is.
C26_BatchSkipsFreshEntries ==
  [][ (batchEv'.op = "settle" /\ batchPc = "await"
       /\ FreshEntry(storage, storageMode, BatchKey[batchI], now)) =>
         (~batchEv'.resolved /\ storage' = storage /\ successCount' = successCount) ]_vars

(***************************************************************************)
(* C27, C28, checked under Spec                                            *)
(***************************************************************************)
\* C27: quiescence when the cache cannot store.  Once a generation has
\* succeeded and its image is published while nothing can be stored, the
\* mount effect starts no further generation.
C27_QuiescentWithoutCache ==
  [][ (/\ ev'.op = "effect"
       /\ storageMode # "ok"
       /\ \A k \in StorageKeys : storage[k] = NoItem
       /\ previewUrl # 0 /\ error = Null /\ ~isGenerating) => ~Started ]_vars

\* C28: the generator's and the hook's validity checks agree.  Every data
\* URL the generator resolves with, of whatever length, is accepted by the
\* hook's continuation: published and, the storage permitting, cached.
C28_ValidityChecksAgree ==
  [][ (ev'.op = "settle" /\ ev'.result # 0) =>
        /\ ev'.ok
        /\ previewUrl' = ev'.result
        /\ storageMode = "ok" =>
             GetProp(storage'[HookKey[ev'.card]], "dataUrl") = ev'.result ]_vars

(***************************************************************************)
(* C29, C30, checked under SpecBatch                                       *)
(***************************************************************************)
\* C29: batch and card agree on the key.  For every model the key under
\* which generateAllPreviews writes equals the key the model's card reads,
\* and every fresh entry the batch has written is returned by the card's
\* loadFromCache.
C29_BatchAndCardAgree ==
  /\ \A c \in Cards : BatchKey[c] = HookKey[c]
  /\ [][ (batchEv'.op = "settle" /\ batchEv'.stored) =>
           LET c == batchEv'.model
               written == GetProp(storage'[BatchKey[c]], "dataUrl") IN
           /\ written >= 100
           /\ GetProp(storage'[BatchKey[c]], "timestamp") = now
           /\ \A t \in {now, now + 1, now + maxAge - 1} :
                loadFromCache(storage', storageMode, HookKey[c], t).result = written
           /\ loadFromCache(storage', storageMode, HookKey[c], now + maxAge).result = 0 ]_vars

\* C29 witness: a run has ended, time has passed, and the entry the batch
\* wrote for a model is what the model's card loads.
C29_Witness ==
  /\ Len(reported) >= 1
  /\ \E c \in Cards :
       /\ EntryAge(storage, storageMode, BatchKey[c], now) > 0
       /\ loadFromCache(storage, storageMode, HookKey[c], now).result = 101

\* C30: batch generation accounting.  A run handles the models one at a
\* time in list order, goes on after a failure, ignores a call made while
\* it runs, and ends with one onPreviewsGenerated call whose count plus the
\* number of recorded errors is the number of models.
C30_BatchAccounting ==
  /\ [](batchPc = "await" =>
          managerIsGenerating /\ batchI \in Cards
          /\ successCount + Len(newErrors) = batchI - 1)
  /\ [](batchPc = "delay" =>
          managerIsGenerating /\ batchI \in Cards
          /\ successCount + Len(newErrors) = batchI)
  /\ [](Len(reported) = runs - (IF managerIsGenerating THEN 1 ELSE 0))
  /\ [][ /\ batchEv'.op = "settle" =>
              /\ batchEv'.model = batchI /\ batchI' = batchI
              /\ batchPc' = "delay"
              /\ newErrors' = IF batchEv'.stored THEN newErrors ELSE Append(newErrors, batchI)
         /\ batchEv'.op = "next" =>
              batchI' = batchI + 1 /\ batchPc' = "await" /\ reported' = reported
         /\ batchEv'.op = "ignored" =>
              /\ managerIsGenerating
              /\ UNCHANGED << storage, managerIsGenerating, errors, batchPc, batchI,
                              successCount, newErrors, reported, runs >>
         /\ batchEv'.op = "finish" =>
              /\ batchI = Len(Models)
              /\ ~managerIsGenerating'
              /\ Len(reported') = Len(reported) + 1
              /\ reported'[Len(reported')] = successCount
              /\ errors' = newErrors
              /\ successCount + Len(errors') = Len(Models) ]_vars

\* C30 witness: a run in which the first model failed and the second
\* succeeded has ended; one success was reported and one error recorded.
C30_Witness ==
  /\ batchEv.op = "finish"
  /\ ~managerIsGenerating
  /\ reported = << 1 >>
  /\ errors = << 1 >>
  /\ storageMode = "ok" /\ storage[BatchKey[2]] # NoItem /\ storage[BatchKey[1]] = NoItem

==========================================================================
